---- MODULE Spec2Model ----
(***************************************************************************)
(* Font to Table Converter: the Unicode block classifier                   *)
(* (load_unicode_blocks / get_unicode_block) and the glyph extraction      *)
(* pass (extract_font_glyphs, save_table, start_conversion,                *)
(* convert_thread) of FontToTableApp, in its two variants: the English     *)
(* file ("en") and tmp.py ("zh").                                          *)
(*                                                                         *)
(* A Python str is modelled as the sequence of its code points, except the *)
(* fixed message and name literals of the program, which are TLA+ strings; *)
(* in those a character outside ASCII is written <XXXX>. Status and       *)
(* dialog messages carry the text of the English file for both variants.   *)
(***************************************************************************)
EXTENDS Integers, Sequences, FiniteSets, TLC

\* load_unicode_blocks: the literal `blocks`, in source order.
blocks ==
  << <<\H0000, \H007F, "Basic Latin">>,
     <<\H0080, \H00FF, "Latin-1 Supplement">>,
     <<\H0100, \H017F, "Latin Extended-A">>,
     <<\H0180, \H024F, "Latin Extended-B">>,
     <<\H0250, \H02AF, "IPA Extensions">>,
     <<\H02B0, \H02FF, "Spacing Modifier Letters">>,
     <<\H0300, \H036F, "Combining Diacritical Marks">>,
     <<\H0370, \H03FF, "Greek and Coptic">>,
     <<\H0400, \H04FF, "Cyrillic">>,
     <<\H0500, \H052F, "Cyrillic Supplement">>,
     <<\H0530, \H058F, "Armenian">>,
     <<\H0590, \H05FF, "Hebrew">>,
     <<\H0600, \H06FF, "Arabic">>,
     <<\H0700, \H074F, "Syriac">>,
     <<\H0750, \H077F, "Arabic Supplement">>,
     <<\H0780, \H07BF, "Thaana">>,
     <<\H07C0, \H07FF, "NKo">>,
     <<\H0800, \H083F, "Samaritan">>,
     <<\H0840, \H085F, "Mandaic">>,
     <<\H0860, \H086F, "Syriac Supplement">>,
     <<\H0870, \H089F, "Arabic Extended-B">>,
     <<\H08A0, \H08FF, "Arabic Extended-A">>,
     <<\H0900, \H097F, "Devanagari">>,
     <<\H0980, \H09FF, "Bengali">>,
     <<\H0A00, \H0A7F, "Gurmukhi">>,
     <<\H0A80, \H0AFF, "Gujarati">>,
     <<\H0B00, \H0B7F, "Oriya">>,
     <<\H0B80, \H0BFF, "Tamil">>,
     <<\H0C00, \H0C7F, "Telugu">>,
     <<\H0C80, \H0CFF, "Kannada">>,
     <<\H0D00, \H0D7F, "Malayalam">>,
     <<\H0D80, \H0DFF, "Sinhala">>,
     <<\H0E00, \H0E7F, "Thai">>,
     <<\H0E80, \H0EFF, "Lao">>,
     <<\H0F00, \H0FFF, "Tibetan">>,
     <<\H1000, \H109F, "Myanmar">>,
     <<\H10A0, \H10FF, "Georgian">>,
     <<\H1100, \H11FF, "Hangul Jamo">>,
     <<\H1200, \H137F, "Ethiopic">>,
     <<\H1380, \H139F, "Ethiopic Supplement">>,
     <<\H13A0, \H13FF, "Cherokee">>,
     <<\H1400, \H167F, "Unified Canadian Aboriginal Syllabics">>,
     <<\H1680, \H169F, "Ogham">>,
     <<\H16A0, \H16FF, "Runic">>,
     <<\H1700, \H171F, "Tagalog">>,
     <<\H1720, \H173F, "Hanunoo">>,
     <<\H1740, \H175F, "Buhid">>,
     <<\H1760, \H177F, "Tagbanwa">>,
     <<\H1780, \H17FF, "Khmer">>,
     <<\H1800, \H18AF, "Mongolian">>,
     <<\H18B0, \H18FF, "Unified Canadian Aboriginal Syllabics Extended">>,
     <<\H1900, \H194F, "Limbu">>,
     <<\H1950, \H197F, "Tai Le">>,
     <<\H1980, \H19DF, "New Tai Lue">>,
     <<\H19E0, \H19FF, "Khmer Symbols">>,
     <<\H1A00, \H1A1F, "Buginese">>,
     <<\H1A20, \H1AAF, "Tai Tham">>,
     <<\H1AB0, \H1AFF, "Combining Diacritical Marks Extended">>,
     <<\H1B00, \H1B7F, "Balinese">>,
     <<\H1B80, \H1BBF, "Sundanese">>,
     <<\H1BC0, \H1BFF, "Batak">>,
     <<\H1C00, \H1C4F, "Lepcha">>,
     <<\H1C50, \H1C7F, "Ol Chiki">>,
     <<\H1C80, \H1C8F, "Cyrillic Extended-C">>,
     <<\H1C90, \H1CBF, "Georgian Extended">>,
     <<\H1CC0, \H1CCF, "Sundanese Supplement">>,
     <<\H1CD0, \H1CFF, "Vedic Extensions">>,
     <<\H1D00, \H1D7F, "Phonetic Extensions">>,
     <<\H1D80, \H1DBF, "Phonetic Extensions Supplement">>,
     <<\H1DC0, \H1DFF, "Combining Diacritical Marks Supplement">>,
     <<\H1E00, \H1EFF, "Latin Extended Additional">>,
     <<\H1F00, \H1FFF, "Greek Extended">>,
     <<\H2000, \H206F, "General Punctuation">>,
     <<\H2070, \H209F, "Superscripts and Subscripts">>,
     <<\H20A0, \H20CF, "Currency Symbols">>,
     <<\H20D0, \H20FF, "Combining Diacritical Marks for Symbols">>,
     <<\H2100, \H214F, "Letterlike Symbols">>,
     <<\H2150, \H218F, "Number Forms">>,
     <<\H2190, \H21FF, "Arrows">>,
     <<\H2200, \H22FF, "Mathematical Operators">>,
     <<\H2300, \H23FF, "Miscellaneous Technical">>,
     <<\H2400, \H243F, "Control Pictures">>,
     <<\H2440, \H245F, "Optical Character Recognition">>,
     <<\H2460, \H24FF, "Enclosed Alphanumerics">>,
     <<\H2500, \H257F, "Box Drawing">>,
     <<\H2580, \H259F, "Block Elements">>,
     <<\H25A0, \H25FF, "Geometric Shapes">>,
     <<\H2600, \H26FF, "Miscellaneous Symbols">>,
     <<\H2700, \H27BF, "Dingbats">>,
     <<\H27C0, \H27EF, "Miscellaneous Mathematical Symbols-A">>,
     <<\H27F0, \H27FF, "Supplemental Arrows-A">>,
     <<\H2800, \H28FF, "Braille Patterns">>,
     <<\H2900, \H297F, "Supplemental Arrows-B">>,
     <<\H2980, \H29FF, "Miscellaneous Mathematical Symbols-B">>,
     <<\H2A00, \H2AFF, "Supplemental Mathematical Operators">>,
     <<\H2B00, \H2BFF, "Miscellaneous Symbols and Arrows">>,
     <<\H2C00, \H2C5F, "Glagolitic">>,
     <<\H2C60, \H2C7F, "Latin Extended-C">>,
     <<\H2C80, \H2CFF, "Coptic">>,
     <<\H2D00, \H2D2F, "Georgian Supplement">>,
     <<\H2D30, \H2D7F, "Tifinagh">>,
     <<\H2D80, \H2DDF, "Ethiopic Extended">>,
     <<\H2DE0, \H2DFF, "Cyrillic Extended-A">>,
     <<\H2E00, \H2E7F, "Supplemental Punctuation">>,
     <<\H2E80, \H2EFF, "CJK Radicals Supplement">>,
     <<\H2F00, \H2FDF, "Kangxi Radicals">>,
     <<\H2FF0, \H2FFF, "Ideographic Description Characters">>,
     <<\H3000, \H303F, "CJK Symbols and Punctuation">>,
     <<\H3040, \H309F, "Hiragana">>,
     <<\H30A0, \H30FF, "Katakana">>,
     <<\H3100, \H312F, "Bopomofo">>,
     <<\H3130, \H318F, "Hangul Compatibility Jamo">>,
     <<\H3190, \H319F, "Kanbun">>,
     <<\H31A0, \H31BF, "Bopomofo Extended">>,
     <<\H31C0, \H31EF, "CJK Strokes">>,
     <<\H31F0, \H31FF, "Katakana Phonetic Extensions">>,
     <<\H3200, \H32FF, "Enclosed CJK Letters and Months">>,
     <<\H3300, \H33FF, "CJK Compatibility">>,
     <<\H3400, \H4DBF, "CJK Unified Ideographs Extension A">>,
     <<\H4DC0, \H4DFF, "Yijing Hexagram Symbols">>,
     <<\H4E00, \H9FFF, "CJK Unified Ideographs">>,
     <<\HA000, \HA48F, "Yi Syllables">>,
     <<\HA490, \HA4CF, "Yi Radicals">>,
     <<\HA4D0, \HA4FF, "Lisu">>,
     <<\HA500, \HA63F, "Vai">>,
     <<\HA640, \HA69F, "Cyrillic Extended-B">>,
     <<\HA6A0, \HA6FF, "Bamum">>,
     <<\HA700, \HA71F, "Modifier Tone Letters">>,
     <<\HA720, \HA7FF, "Latin Extended-D">>,
     <<\HA800, \HA82F, "Syloti Nagri">>,
     <<\HA830, \HA83F, "Common Indic Number Forms">>,
     <<\HA840, \HA87F, "Phags-pa">>,
     <<\HA880, \HA8DF, "Saurashtra">>,
     <<\HA8E0, \HA8FF, "Devanagari Extended">>,
     <<\HA900, \HA92F, "Kayah Li">>,
     <<\HA930, \HA95F, "Rejang">>,
     <<\HA960, \HA97F, "Hangul Jamo Extended-A">>,
     <<\HA980, \HA9DF, "Javanese">>,
     <<\HA9E0, \HA9FF, "Myanmar Extended-B">>,
     <<\HAA00, \HAA5F, "Cham">>,
     <<\HAA60, \HAA7F, "Myanmar Extended-A">>,
     <<\HAA80, \HAADF, "Tai Viet">>,
     <<\HAAE0, \HAAFF, "Meetei Mayek Extensions">>,
     <<\HAB00, \HAB2F, "Ethiopic Extended-A">>,
     <<\HAB30, \HAB6F, "Latin Extended-E">>,
     <<\HAB70, \HABBF, "Cherokee Supplement">>,
     <<\HABC0, \HABFF, "Meetei Mayek">>,
     <<\HAC00, \HD7AF, "Hangul Syllables">>,
     <<\HD7B0, \HD7FF, "Hangul Jamo Extended-B">>,
     <<\HF900, \HFAFF, "CJK Compatibility Ideographs">>,
     <<\HFB00, \HFB4F, "Alphabetic Presentation Forms">>,
     <<\HFB50, \HFDFF, "Arabic Presentation Forms-A">>,
     <<\HFE00, \HFE0F, "Variation Selectors">>,
     <<\HFE10, \HFE1F, "Vertical Forms">>,
     <<\HFE20, \HFE2F, "Combining Half Marks">>,
     <<\HFE30, \HFE4F, "CJK Compatibility Forms">>,
     <<\HFE50, \HFE6F, "Small Form Variants">>,
     <<\HFE70, \HFEFF, "Arabic Presentation Forms-B">>,
     <<\HFF00, \HFFEF, "Halfwidth and Fullwidth Forms">>,
     <<\HFFF0, \HFFFF, "Specials">>,
     <<\H10000, \H1007F, "Linear B Syllabary">>,
     <<\H10080, \H100FF, "Linear B Ideograms">>,
     <<\H10100, \H1013F, "Aegean Numbers">>,
     <<\H10140, \H1018F, "Ancient Greek Numbers">>,
     <<\H10190, \H101CF, "Ancient Symbols">>,
     <<\H101D0, \H101FF, "Phaistos Disc">>,
     <<\H10280, \H1029F, "Lycian">>,
     <<\H102A0, \H102DF, "Carian">>,
     <<\H102E0, \H102FF, "Coptic Epact Numbers">>,
     <<\H10300, \H1032F, "Old Italic">>,
     <<\H10330, \H1034F, "Gothic">>,
     <<\H10350, \H1037F, "Old Permic">>,
     <<\H10380, \H1039F, "Ugaritic">>,
     <<\H103A0, \H103DF, "Old Persian">>,
     <<\H10400, \H1044F, "Deseret">>,
     <<\H10450, \H1047F, "Shavian">>,
     <<\H10480, \H104AF, "Osmanya">>,
     <<\H104B0, \H104FF, "Osage">>,
     <<\H10500, \H1052F, "Elbasan">>,
     <<\H10530, \H1056F, "Caucasian Albanian">>,
     <<\H10600, \H1077F, "Linear A">>,
     <<\H10800, \H1083F, "Cypriot Syllabary">>,
     <<\H10840, \H1085F, "Imperial Aramaic">>,
     <<\H10860, \H1087F, "Palmyrene">>,
     <<\H10880, \H108AF, "Nabataean">>,
     <<\H108E0, \H108FF, "Hatran">>,
     <<\H10900, \H1091F, "Phoenician">>,
     <<\H10920, \H1093F, "Lydian">>,
     <<\H10980, \H1099F, "Meroitic Hieroglyphs">>,
     <<\H109A0, \H109FF, "Meroitic Cursive">>,
     <<\H10A00, \H10A5F, "Kharoshthi">>,
     <<\H10A60, \H10A7F, "Old South Arabian">>,
     <<\H10A80, \H10A9F, "Old North Arabian">>,
     <<\H10AC0, \H10AFF, "Manichaean">>,
     <<\H10B00, \H10B3F, "Avestan">>,
     <<\H10B40, \H10B5F, "Inscriptional Parthian">>,
     <<\H10B60, \H10B7F, "Inscriptional Pahlavi">>,
     <<\H10B80, \H10BAF, "Psalter Pahlavi">>,
     <<\H10C00, \H10C4F, "Old Turkic">>,
     <<\H10C80, \H10CFF, "Old Hungarian">>,
     <<\H10E60, \H10E7F, "Rumi Numeral Symbols">>,
     <<\H10F00, \H10F2F, "Old Sogdian">>,
     <<\H10F30, \H10F6F, "Sogdian">>,
     <<\H10FB0, \H10FDF, "Chorasmian">>,
     <<\H10FE0, \H10FFF, "Elymaic">>,
     <<\H11000, \H1107F, "Brahmi">>,
     <<\H11080, \H110CF, "Kaithi">>,
     <<\H110D0, \H110FF, "Sora Sompeng">>,
     <<\H11100, \H1114F, "Chakma">>,
     <<\H11150, \H1117F, "Mahajani">>,
     <<\H11180, \H111DF, "Sharada">>,
     <<\H111E0, \H111FF, "Sinhala Archaic Numbers">>,
     <<\H11200, \H1124F, "Khojki">>,
     <<\H11280, \H112AF, "Multani">>,
     <<\H112B0, \H112FF, "Khudawadi">>,
     <<\H11300, \H1137F, "Grantha">>,
     <<\H11400, \H1147F, "Newa">>,
     <<\H11480, \H114DF, "Tirhuta">>,
     <<\H11580, \H115FF, "Siddham">>,
     <<\H11600, \H1165F, "Modi">>,
     <<\H11660, \H1167F, "Mongolian Supplement">>,
     <<\H11680, \H116CF, "Takri">>,
     <<\H11700, \H1174F, "Ahom">>,
     <<\H11800, \H1184F, "Dogra">>,
     <<\H118A0, \H118FF, "Warang Citi">>,
     <<\H11900, \H1195F, "Dives Akuru">>,
     <<\H119A0, \H119FF, "Nandinagari">>,
     <<\H11A00, \H11A4F, "Zanabazar Square">>,
     <<\H11A50, \H11AAF, "Soyombo">>,
     <<\H11AC0, \H11AFF, "Pau Cin Hau">>,
     <<\H11C00, \H11C6F, "Bhaiksuki">>,
     <<\H11C70, \H11CBF, "Marchen">>,
     <<\H11D00, \H11D5F, "Masaram Gondi">>,
     <<\H11D60, \H11DAF, "Gunjala Gondi">>,
     <<\H11EE0, \H11EFF, "Makasar">>,
     <<\H11FB0, \H11FBF, "Lisu Supplement">>,
     <<\H11FC0, \H11FFF, "Tamil Supplement">>,
     <<\H12000, \H123FF, "Cuneiform">>,
     <<\H12400, \H1247F, "Cuneiform Numbers and Punctuation">>,
     <<\H12480, \H1254F, "Early Dynastic Cuneiform">>,
     <<\H13000, \H1342F, "Egyptian Hieroglyphs">>,
     <<\H13430, \H1343F, "Egyptian Hieroglyph Format Controls">>,
     <<\H14400, \H1467F, "Anatolian Hieroglyphs">>,
     <<\H16800, \H16A3F, "Bamum Supplement">>,
     <<\H16A40, \H16A6F, "Mro">>,
     <<\H16AD0, \H16AFF, "Bassa Vah">>,
     <<\H16B00, \H16B8F, "Pahawh Hmong">>,
     <<\H16E40, \H16E9F, "Medefaidrin">>,
     <<\H16F00, \H16F9F, "Miao">>,
     <<\H16FE0, \H16FFF, "Ideographic Symbols and Punctuation">>,
     <<\H17000, \H187FF, "Tangut">>,
     <<\H18800, \H18AFF, "Tangut Components">>,
     <<\H18B00, \H18CFF, "Khitan Small Script">>,
     <<\H18D00, \H18D7F, "Tangut Supplement">>,
     <<\H1B000, \H1B0FF, "Kana Supplement">>,
     <<\H1B100, \H1B12F, "Kana Extended-A">>,
     <<\H1B130, \H1B16F, "Small Kana Extension">>,
     <<\H1B170, \H1B2FF, "N<00FC>shu">>,
     <<\H1BC00, \H1BC9F, "Duployan">>,
     <<\H1BCA0, \H1BCAF, "Shorthand Format Controls">>,
     <<\H1D000, \H1D0FF, "Byzantine Musical Symbols">>,
     <<\H1D100, \H1D1FF, "Musical Symbols">>,
     <<\H1D200, \H1D24F, "Ancient Greek Musical Notation">>,
     <<\H1D2E0, \H1D2FF, "Mayan Numerals">>,
     <<\H1D300, \H1D35F, "Tai Xuan Jing Symbols">>,
     <<\H1D360, \H1D37F, "Counting Rod Numerals">>,
     <<\H1D400, \H1D7FF, "Mathematical Alphanumeric Symbols">>,
     <<\H1D800, \H1DAAF, "Sutton SignWriting">>,
     <<\H1E000, \H1E02F, "Glagolitic Supplement">>,
     <<\H1E100, \H1E14F, "Nyiakeng Puachue Hmong">>,
     <<\H1E290, \H1E2BF, "Toto">>,
     <<\H1E2C0, \H1E2FF, "Wancho">>,
     <<\H1E7E0, \H1E7FF, "Ethiopic Extended-B">>,
     <<\H1E800, \H1E8DF, "Mende Kikakui">>,
     <<\H1E900, \H1E95F, "Adlam">>,
     <<\H1EC70, \H1ECBF, "Indic Siyaq Numbers">>,
     <<\H1ED00, \H1ED4F, "Ottoman Siyaq Numbers">>,
     <<\H1EE00, \H1EEFF, "Arabic Mathematical Alphabetic Symbols">>,
     <<\H1F000, \H1F02F, "Mahjong Tiles">>,
     <<\H1F030, \H1F09F, "Domino Tiles">>,
     <<\H1F0A0, \H1F0FF, "Playing Cards">>,
     <<\H1F100, \H1F1FF, "Enclosed Alphanumeric Supplement">>,
     <<\H1F200, \H1F2FF, "Enclosed Ideographic Supplement">>,
     <<\H1F300, \H1F5FF, "Miscellaneous Symbols and Pictographs">>,
     <<\H1F600, \H1F64F, "Emoticons">>,
     <<\H1F650, \H1F67F, "Ornamental Dingbats">>,
     <<\H1F680, \H1F6FF, "Transport and Map Symbols">>,
     <<\H1F700, \H1F77F, "Alchemical Symbols">>,
     <<\H1F780, \H1F7FF, "Geometric Shapes Extended">>,
     <<\H1F800, \H1F8FF, "Supplemental Arrows-C">>,
     <<\H1F900, \H1F9FF, "Supplemental Symbols and Pictographs">>,
     <<\H1FA00, \H1FA6F, "Chess Symbols">>,
     <<\H1FA70, \H1FAFF, "Symbols and Pictographs Extended-A">>,
     <<\H1FB00, \H1FBFF, "Symbols for Legacy Computing">>,
     <<\H20000, \H2A6DF, "CJK Unified Ideographs Extension B">>,
     <<\H2A700, \H2B73F, "CJK Unified Ideographs Extension C">>,
     <<\H2B740, \H2B81F, "CJK Unified Ideographs Extension D">>,
     <<\H2B820, \H2CEAF, "CJK Unified Ideographs Extension E">>,
     <<\H2CEB0, \H2EBEF, "CJK Unified Ideographs Extension F">>,
     <<\H2F800, \H2FA1F, "CJK Compatibility Ideographs Supplement">>,
     <<\H30000, \H3134F, "CJK Unified Ideographs Extension G">>,
     <<\H31350, \H323AF, "CJK Unified Ideographs Extension H">>,
     <<\HE0000, \HE007F, "Tags">>,
     <<\HE0100, \HE01EF, "Variation Selectors Supplement">>,
     <<\HF0000, \HFFFFF, "Supplementary Private Use Area-A">>,
     <<\H100000, \H10FFFF, "Supplementary Private Use Area-B">> >>

\* load_unicode_blocks: the literal `private_use_blocks`, in source order.
private_use_blocks ==
  << <<\HE000, \HF8FF, "Private Use Area">>,
     <<\HF0000, \HFFFFF, "Supplementary Private Use Area-A">>,
     <<\H100000, \H10FFFF, "Supplementary Private Use Area-B">> >>

\* tmp.py, get_unicode_block: the local literal `blocks`, in source order.
\* A character outside ASCII is written <XXXX>, its code point in hexadecimal.
tmp_blocks ==
  << <<\H0000, \H007F, "<57FA><672C><62C9><4E01><6587>">>,
     <<\H0080, \H00FF, "<62C9><4E01><6587><8865><5145>-1">>,
     <<\H0100, \H017F, "<62C9><4E01><6587><6269><5C55>-A">>,
     <<\H0180, \H024F, "<62C9><4E01><6587><6269><5C55>-B">>,
     <<\H0370, \H03FF, "<5E0C><814A><6587><53CA><79D1><666E><7279><6587>">>,
     <<\H0400, \H04FF, "<897F><91CC><5C14><6587>">>,
     <<\H0500, \H052F, "<897F><91CC><5C14><6587><8865><5145>">>,
     <<\H0530, \H058F, "<4E9A><7F8E><5C3C><4E9A><6587>">>,
     <<\H0590, \H05FF, "<5E0C><4F2F><6765><6587>">>,
     <<\H0600, \H06FF, "<963F><62C9><4F2F><6587>">>,
     <<\H0700, \H074F, "<53D9><5229><4E9A><6587>">>,
     <<\H0750, \H077F, "<963F><62C9><4F2F><6587><8865><5145>">>,
     <<\H0780, \H07BF, "<5B83><62FF><6587>">>,
     <<\H0800, \H083F, "<6492><9A6C><5229><4E9A><6587>">>,
     <<\H0840, \H085F, "<66FC><8FBE><6587>">>,
     <<\H0860, \H086F, "<53D9><5229><4E9A><6587><8865><5145>">>,
     <<\H08A0, \H08FF, "<963F><62C9><4F2F><6587><6269><5C55>-A">>,
     <<\H0900, \H097F, "<5929><57CE><6587>">>,
     <<\H0980, \H09FF, "<5B5F><52A0><62C9><6587>">>,
     <<\H0A00, \H0A7F, "<53E4><6728><57FA><6587>">>,
     <<\H0A80, \H0AFF, "<53E4><5409><62C9><7279><6587>">>,
     <<\H0B00, \H0B7F, "<5965><91CC><4E9A><6587>">>,
     <<\H0B80, \H0BFF, "<6CF0><7C73><5C14><6587>">>,
     <<\H0C00, \H0C7F, "<6CF0><5362><56FA><6587>">>,
     <<\H0C80, \H0CFF, "<5361><7EB3><8FBE><6587>">>,
     <<\H0D00, \H0D7F, "<9A6C><62C9><96C5><62C9><59C6><6587>">>,
     <<\H0D80, \H0DFF, "<50E7><4F3D><7F57><6587>">>,
     <<\H0E00, \H0E7F, "<6CF0><6587>">>,
     <<\H0E80, \H0EFF, "<8001><631D><6587>">>,
     <<\H0F00, \H0FFF, "<85CF><6587>">>,
     <<\H1000, \H109F, "<7F05><7538><6587>">>,
     <<\H10A0, \H10FF, "<683C><9C81><5409><4E9A><6587>">>,
     <<\H1100, \H11FF, "<8C1A><6587><517C><5BB9><5B57><6BCD>">>,
     <<\H1200, \H137F, "<57C3><585E><4FC4><6BD4><4E9A><6587>">>,
     <<\H1380, \H139F, "<57C3><585E><4FC4><6BD4><4E9A><6587><8865><5145>">>,
     <<\H13A0, \H13FF, "<5207><7F57><57FA><6587>">>,
     <<\H1400, \H167F, "<7EDF><4E00><52A0><62FF><5927><539F><4F4F><6C11><97F3><8282><6587><5B57>">>,
     <<\H1680, \H169F, "<6B27><7518><6587>">>,
     <<\H16A0, \H16FF, "<5982><5C3C><6587>">>,
     <<\H1700, \H171F, "<5854><52A0><62C9><6587>">>,
     <<\H1720, \H173F, "<54C8><52AA><8BFA><6587>">>,
     <<\H1740, \H175F, "<5E03><5E0C><5FB7><6587>">>,
     <<\H1760, \H177F, "<5854><683C><73ED><74E6><6587>">>,
     <<\H1780, \H17FF, "<9AD8><68C9><6587>">>,
     <<\H1800, \H18AF, "<8499><53E4><6587>">>,
     <<\H18B0, \H18FF, "<7EDF><4E00><52A0><62FF><5927><539F><4F4F><6C11><97F3><8282><6587><5B57><6269><5C55>">>,
     <<\H1900, \H194F, "<6797><5E03><6587>">>,
     <<\H1950, \H197F, "<5FB7><5B8F><50A3><6587>">>,
     <<\H1980, \H19DF, "<65B0><50A3><4EC2><6587>">>,
     <<\H19E0, \H19FF, "<9AD8><68C9><7B26><53F7>">>,
     <<\H1A00, \H1A1F, "<5E03><5409><6587>">>,
     <<\H1A20, \H1AAF, "<5170><7EB3><6587>">>,
     <<\H1AB0, \H1AFF, "<7EC4><5408><53D8><97F3><6807><8BB0><6269><5C55>">>,
     <<\H1B00, \H1B7F, "<5DF4><5398><6587>">>,
     <<\H1B80, \H1BBF, "<5DFD><4ED6><6587>">>,
     <<\H1BC0, \H1BFF, "<5DF4><5854><514B><6587>">>,
     <<\H1C00, \H1C4F, "<96F7><5E03><67E5><6587>">>,
     <<\H1C50, \H1C7F, "<6851><5854><5229><6587>">>,
     <<\H1C80, \H1C8F, "<897F><91CC><5C14><6587><6269><5C55>-C">>,
     <<\H1C90, \H1CBF, "<683C><9C81><5409><4E9A><6587><6269><5C55>">>,
     <<\H1CC0, \H1CCF, "<5DFD><4ED6><6587><8865><5145>">>,
     <<\H1CD0, \H1CFF, "<5420><9640><6269><5C55>">>,
     <<\H1D00, \H1D7F, "<97F3><6807><6269><5C55>">>,
     <<\H1D80, \H1DBF, "<97F3><6807><6269><5C55><8865><5145>">>,
     <<\H1DC0, \H1DFF, "<7EC4><5408><53D8><97F3><6807><8BB0><8865><5145>">>,
     <<\H1E00, \H1EFF, "<62C9><4E01><6587><6269><5C55><9644><52A0>">>,
     <<\H1F00, \H1FFF, "<5E0C><814A><6587><6269><5C55>">>,
     <<\H2000, \H206F, "<5E38><7528><6807><70B9>">>,
     <<\H2070, \H209F, "<4E0A><6807><548C><4E0B><6807>">>,
     <<\H20A0, \H20CF, "<8D27><5E01><7B26><53F7>">>,
     <<\H20D0, \H20FF, "<7EC4><5408><7528><7B26><53F7>">>,
     <<\H2100, \H214F, "<5B57><6BCD><5F0F><7B26><53F7>">>,
     <<\H2150, \H218F, "<6570><5B57><5F62><5F0F>">>,
     <<\H2190, \H21FF, "<7BAD><5934>">>,
     <<\H2200, \H22FF, "<6570><5B66><8FD0><7B97><7B26>">>,
     <<\H2300, \H23FF, "<6742><9879><6280><672F><7B26><53F7>">>,
     <<\H2400, \H243F, "<63A7><5236><56FE><7247>">>,
     <<\H2440, \H245F, "<5149><5B66><8BC6><522B><7B26>">>,
     <<\H2460, \H24FF, "<5E26><5708><5B57><6BCD><6570><5B57>">>,
     <<\H2500, \H257F, "<5236><8868><7B26>">>,
     <<\H2580, \H259F, "<65B9><5757><5143><7D20>">>,
     <<\H25A0, \H25FF, "<51E0><4F55><56FE><5F62>">>,
     <<\H2600, \H26FF, "<6742><9879><7B26><53F7>">>,
     <<\H2700, \H27BF, "<5370><5237><7B26><53F7>">>,
     <<\H27C0, \H27EF, "<6742><9879><6570><5B66><7B26><53F7>-A">>,
     <<\H27F0, \H27FF, "<8865><5145><7BAD><5934>-A">>,
     <<\H2800, \H28FF, "<76F2><6587><70B9><5B57><6A21><578B>">>,
     <<\H2900, \H297F, "<8865><5145><7BAD><5934>-B">>,
     <<\H2980, \H29FF, "<6742><9879><6570><5B66><7B26><53F7>-B">>,
     <<\H2A00, \H2AFF, "<8865><5145><6570><5B66><8FD0><7B97><7B26>">>,
     <<\H2B00, \H2BFF, "<6742><9879><7B26><53F7><548C><7BAD><5934>">>,
     <<\H2C00, \H2C5F, "<683C><62C9><54E5><91CC><6587>">>,
     <<\H2C60, \H2C7F, "<62C9><4E01><6587><6269><5C55>-C">>,
     <<\H2C80, \H2CFF, "<79D1><666E><7279><6587>">>,
     <<\H2D00, \H2D2F, "<683C><9C81><5409><4E9A><6587><8865><5145>">>,
     <<\H2D30, \H2D7F, "<63D0><975E><7EB3><6587>">>,
     <<\H2D80, \H2DDF, "<57C3><585E><4FC4><6BD4><4E9A><6587><6269><5C55>">>,
     <<\H2DE0, \H2DFF, "<897F><91CC><5C14><6587><6269><5C55>-A">>,
     <<\H2E00, \H2E7F, "<8865><5145><6807><70B9>">>,
     <<\H2E80, \H2EFF, "<4E2D><65E5><97E9><6C49><5B57><90E8><9996><8865><5145>">>,
     <<\H2F00, \H2FDF, "<5EB7><7199><90E8><9996>">>,
     <<\H2FF0, \H2FFF, "<8868><610F><6587><5B57><63CF><8FF0><5B57><7B26>">>,
     <<\H3000, \H303F, "<4E2D><65E5><97E9><7B26><53F7><548C><6807><70B9>">>,
     <<\H3040, \H309F, "<65E5><6587><5E73><5047><540D>">>,
     <<\H30A0, \H30FF, "<65E5><6587><7247><5047><540D>">>,
     <<\H3100, \H312F, "<6CE8><97F3><5B57><6BCD>">>,
     <<\H3130, \H318F, "<8C1A><6587><517C><5BB9><5B57><6BCD>">>,
     <<\H3190, \H319F, "<6C49><6587><6CE8><91CA><6807><5FD7>">>,
     <<\H31A0, \H31BF, "<6CE8><97F3><5B57><6BCD><6269><5C55>">>,
     <<\H31C0, \H31EF, "<4E2D><65E5><97E9><7B14><753B>">>,
     <<\H31F0, \H31FF, "<65E5><6587><7247><5047><540D><62FC><97F3><6269><5C55>">>,
     <<\H3200, \H32FF, "<5E26><5708><4E2D><65E5><97E9><5B57><6BCD><548C><6708><4EFD>">>,
     <<\H3300, \H33FF, "<4E2D><65E5><97E9><517C><5BB9><5B57><7B26>">>,
     <<\H3400, \H4DBF, "<4E2D><65E5><97E9><7EDF><4E00><8868><610F><6587><5B57><6269><5C55>A">>,
     <<\H4DC0, \H4DFF, "<6613><7ECF><516D><5341><56DB><5366><7B26><53F7>">>,
     <<\H4E00, \H9FFF, "<4E2D><65E5><97E9><7EDF><4E00><8868><610F><6587><5B57>">>,
     <<\HA000, \HA48F, "<5F5D><6587><97F3><8282>">>,
     <<\HA490, \HA4CF, "<5F5D><6587><5B57><6839>">>,
     <<\HA4D0, \HA4FF, "<8001><5088><50F3><6587>">>,
     <<\HA500, \HA63F, "<74E6><4F0A><6587>">>,
     <<\HA640, \HA69F, "<897F><91CC><5C14><6587><6269><5C55>-B">>,
     <<\HA6A0, \HA6FF, "<5DF4><7A46><59C6><6587>">>,
     <<\HA700, \HA71F, "<58F0><8C03><4FEE><9970><5B57><6BCD>">>,
     <<\HA720, \HA7FF, "<62C9><4E01><6587><6269><5C55>-D">>,
     <<\HA800, \HA82F, "<9521><5C14><8D6B><7279><6587>">>,
     <<\HA830, \HA83F, "<901A><7528><5370><5EA6><6570><5B57><683C><5F0F>">>,
     <<\HA840, \HA87F, "<516B><601D><5DF4><6587>">>,
     <<\HA880, \HA8DF, "<7D22><62C9><4EC0><7279><62C9><6587>">>,
     <<\HA8E0, \HA8FF, "<5929><57CE><6587><6269><5C55>">>,
     <<\HA900, \HA92F, "<514B><8036><6587>">>,
     <<\HA930, \HA95F, "<52D2><59DC><6587>">>,
     <<\HA960, \HA97F, "<8C1A><6587><6269><5C55>-A">>,
     <<\HA980, \HA9DF, "<722A><54C7><6587>">>,
     <<\HA9E0, \HA9FF, "<7F05><7538><6587><6269><5C55>-B">>,
     <<\HAA00, \HAA5F, "<5360><6587>">>,
     <<\HAA60, \HAA7F, "<7F05><7538><6587><6269><5C55>-A">>,
     <<\HAA80, \HAADF, "<8D8A><5357><50A3><6587>">>,
     <<\HAAE0, \HAAFF, "<6885><6CF0><6587><6269><5C55>">>,
     <<\HAB00, \HAB2F, "<57C3><585E><4FC4><6BD4><4E9A><6587><6269><5C55>-A">>,
     <<\HAB30, \HAB6F, "<62C9><4E01><6587><6269><5C55>-E">>,
     <<\HAB70, \HABBF, "<5207><7F57><57FA><6587><8865><5145>">>,
     <<\HABC0, \HABFF, "<66FC><5C3C><666E><5C14><6587>">>,
     <<\HAC00, \HD7AF, "<8C1A><6587><97F3><8282>">>,
     <<\HD7B0, \HD7FF, "<8C1A><6587><5B57><6BCD><6269><5C55>-B">>,
     <<\HF900, \HFAFF, "<4E2D><65E5><97E9><517C><5BB9><8868><610F><6587><5B57>">>,
     <<\HFB00, \HFB4F, "<5B57><6BCD><8868><8FBE><5F62><5F0F>">>,
     <<\HFB50, \HFDFF, "<963F><62C9><4F2F><8868><8FBE><5F62><5F0F>-A">>,
     <<\HFE00, \HFE0F, "<53D8><4F53><9009><62E9><7B26>">>,
     <<\HFE10, \HFE1F, "<7AD6><6392><5F62><5F0F>">>,
     <<\HFE20, \HFE2F, "<7EC4><5408><7528><534A><7B26><53F7>">>,
     <<\HFE30, \HFE4F, "<4E2D><65E5><97E9><517C><5BB9><5F62><5F0F>">>,
     <<\HFE50, \HFE6F, "<5C0F><5199><53D8><4F53><5F62><5F0F>">>,
     <<\HFE70, \HFEFF, "<963F><62C9><4F2F><8868><8FBE><5F62><5F0F>-B">>,
     <<\HFF00, \HFFEF, "<534A><5F62><53CA><5168><5F62><5F62><5F0F>">>,
     <<\HFFF0, \HFFFF, "<7279><6B8A>">>,
     <<\H10000, \H1007F, "<7EBF><6027><6587><5B57>B<97F3><8282><6587><5B57>">>,
     <<\H10080, \H100FF, "<7EBF><6027><6587><5B57>B<8868><610F><6587><5B57>">>,
     <<\H10100, \H1013F, "<7231><7434><6D77><6570><5B57>">>,
     <<\H10140, \H1018F, "<53E4><5E0C><814A><6570><5B57>">>,
     <<\H10190, \H101CF, "<53E4><4EE3><7B26><53F7>">>,
     <<\H101D0, \H101FF, "<8D39><65AF><6258><65AF><5706><76D8>">>,
     <<\H10280, \H1029F, "<5415><57FA><4E9A><6587>">>,
     <<\H102A0, \H102DF, "<5361><91CC><4E9A><6587>">>,
     <<\H102E0, \H102FF, "<79D1><666E><7279><5386><6CD5>">>,
     <<\H10300, \H1032F, "<53E4><610F><5927><5229><6587>">>,
     <<\H10330, \H1034F, "<54E5><7279><6587>">>,
     <<\H10350, \H1037F, "<53E4><5F7C><5C14><59C6><6587>">>,
     <<\H10380, \H1039F, "<4E4C><52A0><91CC><7279><6587>">>,
     <<\H103A0, \H103DF, "<53E4><6CE2><65AF><6587>">>,
     <<\H10400, \H1044F, "<5FB7><745F><96F7><7279><6587>">>,
     <<\H10450, \H1047F, "<8083><4F2F><7EB3><6587>">>,
     <<\H10480, \H104AF, "<5965><65AF><66FC><4E9A><6587>">>,
     <<\H104B0, \H104FF, "<6B27><585E><5947><6587>">>,
     <<\H10500, \H1052F, "<7231><5C14><5DF4><6851><6587>">>,
     <<\H10530, \H1056F, "<9AD8><52A0><7D22><963F><5C14><5DF4><5C3C><4E9A><6587>">>,
     <<\H10600, \H1077F, "<7EBF><6027><6587><5B57>A">>,
     <<\H10800, \H1083F, "<585E><6D66><8DEF><65AF><97F3><8282><6587><5B57>">>,
     <<\H10840, \H1085F, "<5E1D><56FD><4E9A><62C9><59C6><6587>">>,
     <<\H10860, \H1087F, "<5E15><5C14><8FC8><62C9><6587>">>,
     <<\H10880, \H108AF, "<7EB3><5DF4><6CF0><6587>">>,
     <<\H108E0, \H108FF, "<54C8><7279><62C9><6587>">>,
     <<\H10900, \H1091F, "<8153><5C3C><57FA><6587>">>,
     <<\H10920, \H1093F, "<5415><5E95><4E9A><6587>">>,
     <<\H10980, \H1099F, "<9EA6><7F57><57C3><6587><5723><4E66><4F53>">>,
     <<\H109A0, \H109FF, "<9EA6><7F57><57C3><6587><8349><4E66><4F53>">>,
     <<\H10A00, \H10A5F, "<4F49><5362><6587>">>,
     <<\H10A60, \H10A7F, "<53E4><5357><963F><62C9><4F2F><6587>">>,
     <<\H10A80, \H10A9F, "<53E4><5317><963F><62C9><4F2F><6587>">>,
     <<\H10AC0, \H10AFF, "<66FC><5C3C><5B89><6587>">>,
     <<\H10B00, \H10B3F, "<963F><7EF4><65AF><9640><6587>">>,
     <<\H10B40, \H10B5F, "<7891><94ED><5E15><63D0><4E9A><6587>">>,
     <<\H10B60, \H10B7F, "<7891><94ED><5DF4><5217><7EF4><6587>">>,
     <<\H10B80, \H10BAF, "<8BD7><7BC7><5DF4><5217><7EF4><6587>">>,
     <<\H10C00, \H10C4F, "<53E4><7A81><53A5><6587>">>,
     <<\H10C80, \H10CFF, "<53E4><5308><7259><5229><6587>">>,
     <<\H10E60, \H10E7F, "<5362><7C73><7B26><53F7><6570><5B57>">>,
     <<\H11000, \H1107F, "<5A46><7F57><7C73><6587>">>,
     <<\H11080, \H110CF, "<51EF><63D0><6587>">>,
     <<\H110D0, \H110FF, "<7D22><62C9><6851><670B><6587>">>,
     <<\H11100, \H1114F, "<67E5><514B><9A6C><6587>">>,
     <<\H11150, \H1117F, "<9A6C><54C8><8D3E><5C3C><6587>">>,
     <<\H11180, \H111DF, "<590F><62C9><8FBE><6587>">>,
     <<\H111E0, \H111FF, "<4FE1><5FB7><6587>">>,
     <<\H11200, \H1124F, "<683C><5170><5854><6587>">>,
     <<\H11280, \H112AF, "<53E4><5409><62C9><7279><6587>">>,
     <<\H112B0, \H112FF, "<7D22><62C9><4EC0><7279><62C9><6587>">>,
     <<\H11300, \H1137F, "<6CF0><7C73><5C14><6587>">>,
     <<\H11400, \H1147F, "<6CF0><5362><56FA><6587>">>,
     <<\H11480, \H114DF, "<57C3><585E><4FC4><6BD4><4E9A><6587><6269><5C55>">>,
     <<\H11580, \H115FF, "<6089><6619><6587>">>,
     <<\H11600, \H1165F, "<8499><53E4><6587><8865><5145>">>,
     <<\H11660, \H1167F, "<52A0><62FF><5927><539F><4F4F><6C11><97F3><8282><6587><5B57><6269><5C55>">>,
     <<\H11680, \H116CF, "<6CF0><514B><91CC><6587>">>,
     <<\H11800, \H1184F, "<74E6><90CE><5947><8482><6587>">>,
     <<\H118A0, \H118FF, "<4E07><79CB><6587>">>,
     <<\H11AC0, \H11AFF, "<84B2><7518><6587>">>,
     <<\H11C00, \H11C6F, "<62DC><514B><8212><57FA><6587>">>,
     <<\H11C70, \H11CBF, "<739B><94A6><6587>">>,
     <<\H12000, \H123FF, "<6954><5F62><6587><5B57>">>,
     <<\H12400, \H1247F, "<6954><5F62><6587><5B57><6570><5B57><548C><6807><70B9>">>,
     <<\H12480, \H1254F, "<65E9><671F><738B><671D><6954><5F62><6587><5B57>">>,
     <<\H13000, \H1342F, "<57C3><53CA><5723><4E66><4F53>">>,
     <<\H13430, \H1343F, "<57C3><53CA><5723><4E66><4F53><683C><5F0F><63A7><5236>">>,
     <<\H14400, \H1467F, "<5B89><7EB3><6258><5229><4E9A><8C61><5F62><6587><5B57>">>,
     <<\H16800, \H16A3F, "<5DF4><59C6><7A46><6587><5B57><8865><5145>">>,
     <<\H16A40, \H16A6F, "<7A46><5854><6587>">>,
     <<\H16AD0, \H16AFF, "<5DF4><8428><74E6><8D6B><6587>">>,
     <<\H16B00, \H16B8F, "<5E15><897F><5B89><6587>">>,
     <<\H16F00, \H16F9F, "<67CF><683C><7406><82D7><6587>">>,
     <<\H16FE0, \H16FFF, "<8868><610F><7B26><53F7><548C><6807><70B9>">>,
     <<\H17000, \H187FF, "<4E2D><65E5><97E9><7EDF><4E00><8868><610F><6587><5B57><6269><5C55>B">>,
     <<\H18800, \H18AFF, "<4E2D><65E5><97E9><7EDF><4E00><8868><610F><6587><5B57><6269><5C55>C">>,
     <<\H1B000, \H1B0FF, "<65E5><6587><5047><540D><8865><5145>">>,
     <<\H1B100, \H1B12F, "<65E5><6587><5047><540D><6269><5C55>-A">>,
     <<\H1B170, \H1B2FF, "<5973><4E66>">>,
     <<\H1BC00, \H1BC9F, "<675C><666E><6D1B><4F0A><901F><8BB0>">>,
     <<\H1BCA0, \H1BCAF, "<683C><5F0F><63A7><5236><7B26><53F7><7684><901F><8BB0>">>,
     <<\H1D000, \H1D0FF, "<62DC><5360><5EAD><97F3><4E50><7B26><53F7>">>,
     <<\H1D100, \H1D1FF, "<97F3><4E50><7B26><53F7>">>,
     <<\H1D200, \H1D24F, "<53E4><5E0C><814A><97F3><4E50><8BB0><53F7>">>,
     <<\H1D300, \H1D35F, "<592A><7384><7ECF><7B26><53F7>">>,
     <<\H1D360, \H1D37F, "<7B97><7B79>">>,
     <<\H1D400, \H1D7FF, "<6570><5B66><5B57><6BCD><6570><5B57><7B26><53F7>">>,
     <<\H1E800, \H1E8DF, "<95E8><5FB7><6587>">>,
     <<\H1E900, \H1E95F, "<963F><5FB7><62C9><59C6><6587>">>,
     <<\H1EE00, \H1EEFF, "<963F><62C9><4F2F><6570><5B66><5B57><6BCD><7B26><53F7>">>,
     <<\H1F000, \H1F02F, "<9EBB><5C06><724C>">>,
     <<\H1F030, \H1F09F, "<591A><7C73><8BFA><9AA8><724C>">>,
     <<\H1F0A0, \H1F0FF, "<6251><514B><724C>">>,
     <<\H1F100, \H1F1FF, "<5E26><5708><5B57><6BCD><6570><5B57><8865><5145>">>,
     <<\H1F200, \H1F2FF, "<5C01><95ED><5F0F><8868><610F><6587><5B57><8865><5145>">>,
     <<\H1F300, \H1F5FF, "<6742><9879><7B26><53F7><548C><8C61><5F62><6587><5B57>">>,
     <<\H1F600, \H1F64F, "<8868><60C5><7B26><53F7>">>,
     <<\H1F650, \H1F67F, "<88C5><9970><7B26><53F7>">>,
     <<\H1F680, \H1F6FF, "<4EA4><901A><548C><5730><56FE><7B26><53F7>">>,
     <<\H1F700, \H1F77F, "<70BC><91D1><672F><7B26><53F7>">>,
     <<\H1F780, \H1F7FF, "<51E0><4F55><56FE><5F62><6269><5C55>">>,
     <<\H1F800, \H1F8FF, "<8865><5145><7BAD><5934>-C">>,
     <<\H1F900, \H1F9FF, "<8865><5145><7B26><53F7><548C><8C61><5F62><6587><5B57>">>,
     <<\H20000, \H2A6DF, "<4E2D><65E5><97E9><7EDF><4E00><8868><610F><6587><5B57><6269><5C55>C">>,
     <<\H2A700, \H2B73F, "<4E2D><65E5><97E9><7EDF><4E00><8868><610F><6587><5B57><6269><5C55>D">>,
     <<\H2B740, \H2B81F, "<4E2D><65E5><97E9><7EDF><4E00><8868><610F><6587><5B57><6269><5C55>E">>,
     <<\H2B820, \H2CEAF, "<4E2D><65E5><97E9><7EDF><4E00><8868><610F><6587><5B57><6269><5C55>F">>,
     <<\H2CEB0, \H2EBEF, "<4E2D><65E5><97E9><7EDF><4E00><8868><610F><6587><5B57><6269><5C55>G">>,
     <<\H2F800, \H2FA1F, "<4E2D><65E5><97E9><517C><5BB9><8868><610F><6587><5B57><8865><5145>">>,
     <<\HE0000, \HE007F, "<6807><7B7E>">>,
     <<\HE0100, \HE01EF, "<53D8><4F53><9009><62E9><7B26><8865><5145>">>,
     <<\HF0000, \HFFFFF, "<4E13><7528><533A><FF08><8865><5145><4E13><7528><533A><FF09>">>,
     <<\H100000, \H10FFFF, "<8F85><52A9><4E13><7528><533A>">> >>

\* ------------------------------------------------------------------------
\* BlockClassifier

\* The two source files.
Variants == {"en", "zh"}

\* list.sort() on (start, end, name) tuples: lexicographic order. Two tuples
\* of the tables that agree on start and end also agree on name, so the
\* comparison of names never decides.
TupleLess(a, b) == a[1] < b[1] \/ (a[1] = b[1] /\ a[2] < b[2])

\* Mutant of load_unicode_blocks: all_blocks.sort() is missing.
load_unicode_blocks_Unsorted == blocks \o private_use_blocks

\* Mutant of load_unicode_blocks: `blocks +` is missing, only the private
\* use entries are kept.
load_unicode_blocks_PrivateUseOnly == SortSeq(private_use_blocks, TupleLess)

\* load_unicode_blocks: all_blocks = blocks + private_use_blocks; sort.
load_unicode_blocks == SortSeq(blocks \o private_use_blocks, TupleLess)

\* Mutant of Sentinel: nothing is returned when no range matches.
Sentinel_Empty(v) == ""

\* The value returned when no range matches.
Sentinel(v) == IF v = "en" THEN "Unassigned" ELSE "<5176><4ED6><533A><5757>"

\* The table get_unicode_block iterates: self.unicode_blocks in the English
\* file, the local literal in tmp.py.
BlockTable(v, self_blocks) == IF v = "en" THEN self_blocks ELSE tmp_blocks

\* Mutants of InRange: the end excluded; the start not tested.
InRange_EndExcluded(start, end, code_point) == start <= code_point /\ code_point < end
InRange_NoStart(start, end, code_point) == code_point <= end
InRange_StartExcluded(start, end, code_point) == start < code_point /\ code_point <= end

\* if start <= code_point <= end
InRange(start, end, code_point) == start <= code_point /\ code_point <= end

\* for start, end, name in table: if start <= code_point <= end: return name
\* The index at which the loop returns when it runs over the entries lo..hi
\* in order, 0 when it runs off their end. The run over lo..hi is the run
\* over its first half and then, if that did not return, over its second
\* half, which keeps the evaluation shallow on a table of 300 entries.
RECURSIVE ScanBlocks(_, _, _, _)
ScanBlocks(table, lo, hi, code_point) ==
  IF lo > hi THEN 0
  ELSE IF lo = hi
       THEN (IF InRange(table[lo][1], table[lo][2], code_point) THEN lo ELSE 0)
       ELSE LET mid == (lo + hi) \div 2
                first == ScanBlocks(table, lo, mid, code_point)
            IN  IF first # 0 THEN first ELSE ScanBlocks(table, mid + 1, hi, code_point)

get_unicode_block(v, self_blocks, code_point) ==
  LET table == BlockTable(v, self_blocks)
      i == ScanBlocks(table, 1, Len(table), code_point)
  IN  IF i # 0 THEN table[i][3] ELSE Sentinel(v)

\* Mutants of blocks_after_lookup: the entry that matched is taken out of
\* the list; the entry that matched is moved to the front of the list.
blocks_after_lookup_Pop(self_blocks, code_point) ==
  LET i == ScanBlocks(self_blocks, 1, Len(self_blocks), code_point)
  IN  IF i = 0 THEN self_blocks
      ELSE SubSeq(self_blocks, 1, i - 1) \o SubSeq(self_blocks, i + 1, Len(self_blocks))
blocks_after_lookup_MoveToFront(self_blocks, code_point) ==
  LET i == ScanBlocks(self_blocks, 1, Len(self_blocks), code_point)
  IN  IF i = 0 THEN self_blocks
      ELSE <<self_blocks[i]>> \o SubSeq(self_blocks, 1, i - 1)
           \o SubSeq(self_blocks, i + 1, Len(self_blocks))

\* self.unicode_blocks after a call of get_unicode_block: the loop only
\* reads the list.
blocks_after_lookup(self_blocks, code_point) == self_blocks

\* ------------------------------------------------------------------------
\* The libraries the extraction pass calls

\* Largest argument chr() accepts (range(0x110000)).
MaxCodePoint == \H10FFFF

\* The code points the fonts of the model map: TAB (Cc), A (Lu), WHITE
\* SQUARE (So, the character the placeholder is), a CJK ideograph (Lo), a
\* surrogate (Cs), a supplementary private-use point (Co), a noncharacter
\* (Cn), and one integer above the Unicode range.
CodePoints == {\H0009, \H0041, \H25A1, \H4E2D, \HD800, \HF0000, \H10FFFF, \H110000}

\* chr(code_point) raises ValueError outside range(0x110000), and returns a
\* one-character str for every other integer, surrogates included.
chr_raises(code_point) == code_point < 0 \/ code_point > MaxCodePoint
chr(code_point) == <<code_point>>

\* unicodedata.category(char), for the characters of CodePoints.
category(char) ==
  CASE char[1] = \H0009 -> "Cc"
    [] char[1] = \H0041 -> "Lu"
    [] char[1] = \H25A1 -> "So"
    [] char[1] = \H4E2D -> "Lo"
    [] char[1] = \HD800 -> "Cs"
    [] char[1] = \HF0000 -> "Co"
    [] OTHER -> "Cn"

\* unicodedata.name(char) raises ValueError for a character without a name.
name_raises(char) == char[1] \notin {\H0041, \H25A1, \H4E2D}
unicodedata_name(char) ==
  CASE char[1] = \H0041 -> "LATIN CAPITAL LETTER A"
    [] char[1] = \H25A1 -> "WHITE SQUARE"
    [] OTHER -> "CJK UNIFIED IDEOGRAPH-4E2D"

\* category.startswith('C')
startswith_C(cat) == cat \in {"Cc", "Cf", "Co", "Cs", "Cn"}

\* The glyph identifier the fonts of the model give a code point.
GlyphOf(code_point) == Cardinality({c \in CodePoints : c <= code_point})

\* ------------------------------------------------------------------------
\* GlyphEnricher: the helpers of extract_font_glyphs

\* Mutant of get_unicode_name_raises: no `except ValueError`, the error of
\* unicodedata.name leaves get_unicode_name.
get_unicode_name_Uncaught(v, char) == name_raises(char)

\* get_unicode_name catches the ValueError of unicodedata.name: it never
\* raises.
get_unicode_name_raises(v, char) == FALSE

\* get_unicode_name: the name, or the fixed string on ValueError.
get_unicode_name(v, char) ==
  IF name_raises(char)
  THEN (IF v = "en" THEN "Unnamed Character" ELSE "<672A><547D><540D><5B57><7B26>")
  ELSE unicodedata_name(char)

\* str(glyph_id), for the glyph identifiers of the model.
GlyphIdStr(glyph_id) == <<"0", "1", "2", "3", "4", "5", "6", "7", "8", "9">>[glyph_id + 1]

\* Mutant of get_glyph_name_raises: no `except`, the error of
\* font.getGlyphName leaves get_glyph_name.
get_glyph_name_Uncaught(font, glyph_id) == ~font.names

\* get_glyph_name catches whatever font.getGlyphName raises: it never raises.
get_glyph_name_raises(font, glyph_id) == FALSE

\* get_glyph_name: font.getGlyphName(glyph_id), or "glyph_<id>" when it raises.
get_glyph_name(font, glyph_id) ==
  IF font.names THEN "G" \o GlyphIdStr(glyph_id) ELSE "glyph_" \o GlyphIdStr(glyph_id)

\* f"{n:X}": uppercase hexadecimal of a natural number.
HexDigit(d) == <<"0", "1", "2", "3", "4", "5", "6", "7", "8", "9",
                 "A", "B", "C", "D", "E", "F">>[d + 1]
RECURSIVE HexUpper(_)
HexUpper(n) == IF n < 16 THEN HexDigit(n) ELSE HexUpper(n \div 16) \o HexDigit(n % 16)
RECURSIVE HexWidth(_)
HexWidth(n) == IF n < 16 THEN 1 ELSE 1 + HexWidth(n \div 16)
RECURSIVE Zeros(_)
Zeros(k) == IF k <= 0 THEN "" ELSE "0" \o Zeros(k - 1)

\* Mutant of unicode_hex: a field of exactly 4 digits, the high digits lost.
unicode_hex_Truncated(code_point) ==
  "U+" \o Zeros(4 - HexWidth(code_point % 65536)) \o HexUpper(code_point % 65536)

\* f"U+{code_point:04X}": zero-padded to 4 digits, never truncated.
unicode_hex(code_point) == "U+" \o Zeros(4 - HexWidth(code_point)) \o HexUpper(code_point)

\* The placeholder "□" (U+25A1) shown for a control character.
Placeholder == <<\H25A1>>

\* One iteration of the loop of extract_font_glyphs on the entry
\* (code_point, glyph_id): the sequence of records it appends, empty when
\* the entry raises or is filtered out.
\* Mutant of Filtered: the test of the option inverted.
Filtered_Inverted(include_control, cat) == include_control /\ startswith_C(cat)

\* if not include_control_chars and category.startswith('C'): continue
Filtered(include_control, cat) == ~include_control /\ startswith_C(cat)

\* Mutant of display_char: the test of the category inverted.
display_char_NotControl(char, cat, preview) ==
  IF ~preview /\ ~startswith_C(cat) THEN Placeholder ELSE char

\* Mutant of display_char: the placeholder whatever the category.
display_char_AnyCategory(char, cat, preview) == IF ~preview THEN Placeholder ELSE char

\* display_char: the placeholder for a control character when previews are
\* off, the character itself otherwise.
display_char(char, cat, preview) ==
  IF ~preview /\ startswith_C(cat) THEN Placeholder ELSE char

\* The category the loop body works with, "raise" when the exception of
\* unicodedata.category reaches the handler of the loop. The English file
\* wraps the call in try/except and takes "Cn"; tmp.py calls it bare.
category_or_Cn(v, font, char) ==
  IF font.category_raises
  THEN (IF v = "en" THEN "Cn" ELSE "raise")
  ELSE category(char)

LoopBody(v, font, code_point, glyph_id, include_control, preview, self_blocks) ==
  IF chr_raises(code_point) THEN <<>>
  ELSE LET char == chr(code_point)
           cat == category_or_Cn(v, font, char)
           row == [Character |-> display_char(char, cat, preview),
                   Unicode |-> unicode_hex(code_point),
                   UnicodeName |-> get_unicode_name(v, char),
                   Block |-> get_unicode_block(v, self_blocks, code_point),
                   CodePoint |-> code_point,
                   Category |-> cat]
       IN  IF cat = "raise" THEN <<>>
           ELSE IF Filtered(include_control, cat) THEN <<>>
           ELSE IF get_unicode_name_raises(v, char) THEN <<>>
           ELSE IF v = "en"
                THEN (IF get_glyph_name_raises(font, glyph_id) THEN <<>>
                      ELSE << row @@ [GlyphName |-> get_glyph_name(font, glyph_id)] >>)
                ELSE << row >>

\* Mutant of sort_values: the frame is left in the order of the list.
sort_values_Unsorted(data) == data

\* df.sort_values("CodePoint").reset_index(drop=True)
CodePointLess(a, b) == a.CodePoint < b.CodePoint
sort_values(data) == SortSeq(data, CodePointLess)

\* Mutant of drop_columns: only the CodePoint column is dropped.
drop_columns_KeepsCategory(r) == [f \in (DOMAIN r) \ {"CodePoint"} |-> r[f]]

\* df.drop(columns=["CodePoint", "Category"])
drop_columns(r) == [f \in (DOMAIN r) \ {"CodePoint", "Category"} |-> r[f]]

\* save_table: the rows handed to the writer.
TableRows(data) == LET df == sort_values(data)
                   IN  [i \in 1..Len(df) |-> drop_columns(df[i])]

\* ------------------------------------------------------------------------
\* State

\* Largest number of entries of a character map of the model.
MaxCmap == 2

VARIABLES
  variant,               \* the source file that runs: "en" or "zh"
  FONTTOOLS_AVAILABLE,   \* module globals set by the imports
  PANDAS_AVAILABLE,
  unicode_blocks,        \* self.unicode_blocks (English file only)
  lookup,                \* last call of get_unicode_block from outside the pass:
                         \* <<code_point, result, calls made at code_point>>
  convert_button,        \* state of self.convert_button
  status_var,            \* self.status_var
  progress_var,          \* self.progress_var, a fraction <<numerator, denominator>>
  pc,                    \* position of the conversion thread; "idle" when none
  font_path,             \* the file self.font_path names
  font,                  \* the font_path argument of convert_thread
  font_open,             \* the TTFont is open
  include_control_chars, \* arguments of extract_font_glyphs
  show_preview,
  cmap,                  \* font.getBestCmap(), in iteration order
  total_glyphs,
  processed,
  it,                    \* entries of cmap the for loop has taken
  glyphs_data,
  error,                 \* the exception convert_thread is handling, "" if none
  written,               \* save_table: the format and the rows handed to the writer
  after_queue,           \* callbacks scheduled with root.after(0, ...)
  dialogs,               \* message boxes on screen
  scheduled,             \* the message boxes the running convert_thread scheduled
  finishing              \* convert_threads that scheduled the re-enabling of the
                         \* button and have progress_var.set(0) left to run

vars == <<variant, FONTTOOLS_AVAILABLE, PANDAS_AVAILABLE, unicode_blocks, lookup,
          convert_button, status_var, progress_var, font_path, pc, font, font_open,
          include_control_chars, show_preview, cmap, total_glyphs, processed,
          it, glyphs_data, error, written, after_queue, dialogs, scheduled,
          finishing>>

module_vars == <<variant, FONTTOOLS_AVAILABLE, PANDAS_AVAILABLE>>
classifier_vars == <<variant, FONTTOOLS_AVAILABLE, PANDAS_AVAILABLE, unicode_blocks>>
gui_vars == <<convert_button, status_var, progress_var, font_path, after_queue, dialogs>>
thread_vars == <<pc, font, font_open, include_control_chars, show_preview, cmap,
                 total_glyphs, processed, it, glyphs_data, error, written, scheduled>>

\* Character maps: up to MaxCmap entries with distinct keys, which the
\* dictionary yields in ascending or in descending order of code point (for
\* two entries these are all the orders there are).
CmapSeqs ==
  UNION { { s \in [1..n -> CodePoints] :
              \/ \A i, j \in 1..n : i < j => s[i] < s[j]
              \/ \A i, j \in 1..n : i < j => s[i] > s[j] }
          : n \in 0..MaxCmap }

\* Font files: one TTFont cannot open, one without a cmap table, and one
\* for each character map, with a glyph order that names its glyphs or not.
\* NoFont stands for an empty path or a path to no file.
\* category_raises: unicodedata.category raises for the characters of the
\* file, a fault of the library that only the fonts of FaultFonts carry.
NoFont == [exists |-> FALSE, loads |-> FALSE, has_cmap |-> FALSE, keys |-> <<>>,
           names |-> FALSE, category_raises |-> FALSE]
Fonts ==
  { [exists |-> TRUE, loads |-> FALSE, has_cmap |-> FALSE, keys |-> <<>>,
     names |-> FALSE, category_raises |-> FALSE],
    [exists |-> TRUE, loads |-> TRUE, has_cmap |-> FALSE, keys |-> <<>>,
     names |-> FALSE, category_raises |-> FALSE] }
  \cup { [exists |-> TRUE, loads |-> TRUE, has_cmap |-> TRUE, keys |-> s,
          names |-> n, category_raises |-> FALSE]
         : s \in CmapSeqs, n \in BOOLEAN }

\* tmp.py never asks the font for a glyph name.
FontsOf(v) == IF v = "en" THEN Fonts ELSE { f \in Fonts : ~f.names }

\* The fonts with at most one entry in the character map.
SmallFonts(v) == { f \in FontsOf(v) : Len(f.keys) <= 1 }

\* The fonts of one entry on which unicodedata.category raises.
FaultFonts(v) ==
  { [f EXCEPT !.category_raises = TRUE] : f \in { g \in FontsOf(v) : Len(g.keys) = 1 } }

\* font.getBestCmap().items()
getBestCmap(f) == [i \in 1..Len(f.keys) |-> <<f.keys[i], GlyphOf(f.keys[i])>>]

Frac(n) == <<n, 1>>

\* __init__
Init ==
  /\ variant \in Variants
  /\ FONTTOOLS_AVAILABLE \in BOOLEAN
  /\ PANDAS_AVAILABLE \in BOOLEAN
  /\ unicode_blocks = IF variant = "en" THEN load_unicode_blocks ELSE <<>>
  /\ lookup = <<>>
  /\ convert_button = "normal"
  /\ status_var = <<"Ready">>
  /\ progress_var = Frac(0)
  /\ font_path = NoFont
  /\ pc = "idle"
  /\ font = NoFont
  /\ font_open = FALSE
  /\ include_control_chars = FALSE
  /\ show_preview = TRUE
  /\ cmap = <<>>
  /\ total_glyphs = 0
  /\ processed = 0
  /\ it = 0
  /\ glyphs_data = <<>>
  /\ error = ""
  /\ written = <<>>
  /\ after_queue = <<>>
  /\ dialogs = <<>>
  /\ scheduled = <<>>
  /\ finishing = 0

\* ------------------------------------------------------------------------
\* Handlers of the main thread

\* browse_font_file: the user picks a file in the dialog. The model lets the
\* user pick once.
browse_font_file(f) ==
  /\ dialogs = <<>>
  /\ ~font_path.exists
  /\ font_path' = f
  /\ UNCHANGED <<classifier_vars, lookup, thread_vars,
                 convert_button, status_var, progress_var, after_queue, dialogs, finishing>>

\* The checks of start_conversion, in order; "" when all pass. out is the
\* state of the output path: "", "ok", or "mkdir" when its directory is
\* missing and os.makedirs raises.
StartCheck(out) ==
  IF ~FONTTOOLS_AVAILABLE THEN "fontTools library not installed"
  ELSE IF ~PANDAS_AVAILABLE THEN "pandas library not installed"
  ELSE IF ~font_path.exists THEN "Please select a valid font file"
  ELSE IF out = "" THEN "Please select output file path"
  ELSE IF out = "mkdir" THEN "Cannot create output directory"
  ELSE ""

OutputPaths == {"", "ok", "mkdir"}

\* Mutant of button_after_rejection: the button is disabled before the
\* checks.
button_after_rejection_Disabled(state) == "disabled"

\* The state of the convert button when a check of start_conversion fails:
\* the `return` comes before the button is touched.
button_after_rejection(state) == state

\* start_conversion, a check failing: showerror and return.
start_conversion_rejected(out) ==
  /\ convert_button = "normal"
  /\ dialogs = <<>>
  /\ StartCheck(out) # ""
  /\ dialogs' = Append(dialogs, <<"showerror", StartCheck(out)>>)
  /\ convert_button' = button_after_rejection(convert_button)
  /\ UNCHANGED <<classifier_vars, lookup, thread_vars,
                 status_var, progress_var, font_path, after_queue, finishing>>

\* start_conversion, all checks passing: disable the button and start the
\* thread.
start_conversion(out) ==
  /\ convert_button = "normal"
  /\ dialogs = <<>>
  /\ StartCheck(out) = ""
  /\ convert_button' = "disabled"
  /\ status_var' = <<"Starting...">>
  /\ progress_var' = Frac(0)
  /\ pc' = "begin"
  /\ font' = font_path
  /\ written' = <<>>
  /\ scheduled' = <<>>
  /\ UNCHANGED <<classifier_vars, lookup, font_path, font_open,
                 include_control_chars, show_preview, cmap, total_glyphs,
                 processed, it, glyphs_data, error, after_queue, dialogs, finishing>>

\* The event loop runs the oldest callback scheduled with root.after.
run_after_callback ==
  /\ after_queue # <<>>
  /\ after_queue' = Tail(after_queue)
  /\ IF Head(after_queue)[1] = "config_normal"
     THEN convert_button' = "normal" /\ UNCHANGED dialogs
     ELSE dialogs' = Append(dialogs, Head(after_queue)) /\ UNCHANGED convert_button
  /\ UNCHANGED <<classifier_vars, lookup, thread_vars, status_var, progress_var, font_path, finishing>>

\* The user closes a message box.
dismiss_dialog ==
  /\ dialogs # <<>>
  /\ dialogs' = Tail(dialogs)
  /\ UNCHANGED <<classifier_vars, lookup, thread_vars,
                 convert_button, status_var, progress_var, font_path, after_queue, finishing>>

\* ------------------------------------------------------------------------
\* The conversion thread: convert_thread and the functions it calls

\* Mutant of cmap_empty: the test of the character map is missing.
cmap_empty_Unchecked(c) == FALSE

\* if not cmap: an empty mapping, or None when the font has no Unicode cmap.
cmap_empty(c) == c = <<>>

\* extract_font_glyphs up to the loop: raises (to the handler of
\* convert_thread) or reaches the loop with the character map.
extract_begin ==
  /\ pc = "begin"
  /\ \E icc \in BOOLEAN, sp \in BOOLEAN :
       /\ include_control_chars' = icc
       /\ show_preview' = sp
  /\ IF ~FONTTOOLS_AVAILABLE \/ ~PANDAS_AVAILABLE
     THEN /\ error' = "ImportError"
          /\ pc' = "except"
          /\ UNCHANGED <<status_var, progress_var, font_open, cmap, total_glyphs>>
     ELSE IF ~font.loads
     THEN /\ status_var' = <<"Loading font file...">>
          /\ progress_var' = Frac(10)
          /\ error' = "Cannot load font file"
          /\ pc' = "except"
          /\ UNCHANGED <<font_open, cmap, total_glyphs>>
     ELSE /\ status_var' = <<"Extracting glyph information...">>
          /\ progress_var' = Frac(30)
          /\ font_open' = TRUE
          /\ IF ~font.has_cmap
             THEN /\ error' = "Font file does not contain cmap table"
                  /\ pc' = "except"
                  /\ UNCHANGED <<cmap, total_glyphs>>
             ELSE IF cmap_empty(getBestCmap(font))
             THEN /\ error' = "Cannot extract character mapping from font file"
                  /\ pc' = "except"
                  /\ UNCHANGED <<cmap, total_glyphs>>
             ELSE /\ cmap' = getBestCmap(font)
                  /\ total_glyphs' = Len(getBestCmap(font))
                  /\ pc' = "loop"
                  /\ UNCHANGED error
  /\ glyphs_data' = <<>>
  /\ processed' = 0
  /\ it' = 0
  /\ UNCHANGED <<classifier_vars, lookup, convert_button, font_path, font, written,
                 after_queue, dialogs,
                 scheduled, finishing>>

\* Mutant of LoopNext: the exception of an entry leaves the loop.
LoopNext_Propagate(code_point) == IF chr_raises(code_point) THEN "except" ELSE "loop"

\* `except Exception as e: continue`: whatever the entry did, the loop goes on.
LoopNext(code_point) == "loop"

\* Mutant of glyphs_append: the record is appended twice.
glyphs_append_Twice(data, rows) == data \o rows \o rows

\* glyphs_data.append({...}), for the records of one iteration.
glyphs_append(data, rows) == data \o rows

\* Mutant of processed_next: only the entries that give a record are
\* counted.
processed_next_OnAppend(processed_now, rows) == processed_now + Len(rows)

\* processed += 1, the first statement of the loop body.
processed_next(processed_now, rows) == processed_now + 1

\* One iteration of `for code_point, glyph_id in cmap.items()`.
extract_loop ==
  /\ pc = "loop"
  /\ it < Len(cmap)
  /\ LET rows == LoopBody(variant, font, cmap[it + 1][1], cmap[it + 1][2],
                          include_control_chars, show_preview, unicode_blocks)
     IN  /\ processed' = processed_next(processed, rows)
         /\ glyphs_data' = glyphs_append(glyphs_data, rows)
         /\ unicode_blocks' = IF rows # <<>>
                              THEN blocks_after_lookup(unicode_blocks, cmap[it + 1][1])
                              ELSE unicode_blocks
  /\ it' = it + 1
  /\ progress_var' = <<30 * total_glyphs + 60 * processed', total_glyphs>>
  /\ status_var' = IF processed' % 100 = 0
                   THEN <<"Processing characters", processed', total_glyphs>>
                   ELSE status_var
  /\ pc' = LoopNext(cmap[it + 1][1])
  /\ UNCHANGED <<module_vars, lookup, convert_button, font_path, font, font_open,
                 include_control_chars, show_preview, cmap, total_glyphs, error,
                 written, after_queue, dialogs,
                 scheduled, finishing>>

\* The loop is over: close the font and return glyphs_data.
extract_return ==
  /\ pc = "loop"
  /\ it = Len(cmap)
  /\ font_open' = FALSE
  /\ status_var' = <<"Successfully extracted", Len(glyphs_data)>>
  /\ progress_var' = Frac(95)
  /\ pc' = "extracted"
  /\ UNCHANGED <<classifier_vars, lookup, convert_button, font_path, font,
                 include_control_chars, show_preview, cmap, total_glyphs, processed,
                 it, glyphs_data, error, written, after_queue, dialogs,
                 scheduled, finishing>>

\* self.supported_table_formats, the values self.table_format takes.
TableFormats == {"csv", "xlsx", "json", "html", "md"}

\* Mutant of not_glyphs_data: the test of the list is missing.
not_glyphs_data_Never(data) == FALSE

\* `not glyphs_data`: the list is empty.
not_glyphs_data(data) == data = <<>>

\* convert_thread: `if not glyphs_data`: schedule the warning and return.
convert_no_glyphs ==
  /\ pc = "extracted"
  /\ not_glyphs_data(glyphs_data)
  /\ after_queue' = Append(after_queue, <<"showwarning", "No characters found to extract">>)
  /\ scheduled' = Append(scheduled, "showwarning")
  /\ pc' = "finally"
  /\ UNCHANGED <<classifier_vars, lookup, convert_button, status_var, progress_var,
                 font_path, font, font_open, include_control_chars, show_preview, cmap,
                 total_glyphs, processed, it, glyphs_data, error, written, dialogs, finishing>>

\* save_table: sort by code point, drop the two temporary columns and hand
\* the rows to the writer of the format, which writes them or raises.
save_table(table_format, writer_ok) ==
  /\ pc = "extracted"
  /\ ~not_glyphs_data(glyphs_data)
  /\ status_var' = <<"Saving as", table_format>>
  /\ IF writer_ok
     THEN /\ written' = <<[format |-> table_format, rows |-> TableRows(glyphs_data)]>>
          /\ pc' = "saved"
          /\ UNCHANGED error
     ELSE /\ error' = "Cannot save file"
          /\ pc' = "except"
          /\ UNCHANGED written
  /\ UNCHANGED <<classifier_vars, lookup, convert_button, progress_var, font_path, font,
                 font_open, include_control_chars, show_preview, cmap, total_glyphs,
                 processed, it, glyphs_data, after_queue, dialogs,
                 scheduled, finishing>>

\* convert_thread after save_table returned: progress 100, the status and
\* the success message.
convert_success ==
  /\ pc = "saved"
  /\ progress_var' = Frac(100)
  /\ status_var' = <<"Conversion complete!", Len(glyphs_data)>>
  /\ after_queue' = Append(after_queue, <<"showinfo", "Conversion complete!">>)
  /\ scheduled' = Append(scheduled, "showinfo")
  /\ pc' = "finally"
  /\ UNCHANGED <<classifier_vars, lookup, convert_button, font_path, font, font_open,
                 include_control_chars, show_preview, cmap, total_glyphs, processed,
                 it, glyphs_data, error, written, dialogs, finishing>>

\* Mutant of except_dialog: the handler reports a warning.
except_dialog_Warning(msg) == <<"showwarning", msg>>

\* The message box the handler of convert_thread schedules.
except_dialog(msg) == <<"showerror", msg>>

\* convert_thread, `except Exception as e`: schedule the error message.
convert_except ==
  /\ pc = "except"
  /\ after_queue' = Append(after_queue, except_dialog(error))
  /\ scheduled' = Append(scheduled, except_dialog(error)[1])
  /\ pc' = "finally"
  /\ UNCHANGED <<classifier_vars, lookup, convert_button, status_var, progress_var,
                 font_path, font, font_open, include_control_chars, show_preview, cmap,
                 total_glyphs, processed, it, glyphs_data, error, written, dialogs, finishing>>

\* Largest number of convert_threads the model keeps at their last
\* statement.
MaxFinishing == 1

\* Mutant of finally_callbacks: the re-enabling is not scheduled.
finally_callbacks_None(queue) == queue

\* root.after(0, lambda: self.convert_button.config(state=tk.NORMAL))
finally_callbacks(queue) == Append(queue, <<"config_normal", "">>)

\* Mutant of progress_after_finally: the progress is left as it is.
progress_after_finally_Kept(progress) == progress

\* self.progress_var.set(0), the last statement of convert_thread.
progress_after_finally(progress) == Frac(0)

\* convert_thread, `finally`, first statement: schedule the re-enabling of
\* the button. The frame of the thread is no longer used: what is left of
\* the thread is its last statement.
convert_finally ==
  /\ pc = "finally"
  /\ finishing < MaxFinishing
  /\ after_queue' = finally_callbacks(after_queue)
  /\ finishing' = finishing + 1
  /\ pc' = "idle"
  /\ font' = NoFont
  /\ include_control_chars' = FALSE
  /\ show_preview' = TRUE
  /\ cmap' = <<>>
  /\ total_glyphs' = 0
  /\ processed' = 0
  /\ it' = 0
  /\ glyphs_data' = <<>>
  /\ error' = ""
  /\ written' = <<>>
  /\ scheduled' = <<>>
  /\ UNCHANGED <<classifier_vars, lookup, convert_button, status_var, progress_var,
                 font_path, font_open, dialogs>>

\* convert_thread, `finally`, last statement: reset the progress; the
\* thread ends.
convert_finally_reset ==
  /\ finishing > 0
  /\ progress_var' = progress_after_finally(progress_var)
  /\ finishing' = finishing - 1
  /\ UNCHANGED <<classifier_vars, lookup, thread_vars, convert_button, status_var,
                 font_path, after_queue, dialogs>>

\* ------------------------------------------------------------------------
\* A call of get_unicode_block on the constructed application.

\* The code points looked up: the two ends of every range of both tables and
\* their neighbours, and integers far outside the Unicode range.
TableEnds(table) ==
  { table[i][1] + d : i \in DOMAIN table, d \in {-1, 0} }
  \cup { table[i][2] + d : i \in DOMAIN table, d \in {0, 1} }
OutOfRange == {-2147483647, -65536, -1, \H110000, \H110001, 2147483647}
LookupPoints == TableEnds(blocks \o private_use_blocks) \cup TableEnds(tmp_blocks) \cup OutOfRange

\* Largest number of calls of get_unicode_block the model follows.
MaxCalls == 2

\* The model follows an application through calls at one code point.
call_get_unicode_block(code_point) ==
  /\ IF lookup = <<>> THEN TRUE ELSE lookup[1] = code_point /\ lookup[3] < MaxCalls
  /\ lookup' = <<code_point, get_unicode_block(variant, unicode_blocks, code_point),
                 IF lookup = <<>> THEN 1 ELSE lookup[3] + 1>>
  /\ unicode_blocks' = blocks_after_lookup(unicode_blocks, code_point)
  /\ UNCHANGED <<module_vars, gui_vars, thread_vars, finishing>>

\* ------------------------------------------------------------------------
\* Specifications

\* The application converting fonts.
Next ==
  \/ \E f \in FontsOf(variant) : browse_font_file(f)
  \/ \E out \in OutputPaths : start_conversion_rejected(out)
  \/ \E out \in OutputPaths : start_conversion(out)
  \/ extract_begin
  \/ extract_loop
  \/ extract_return
  \/ convert_no_glyphs
  \/ \E table_format \in TableFormats, writer_ok \in BOOLEAN : save_table(table_format, writer_ok)
  \/ convert_success
  \/ convert_except
  \/ convert_finally
  \/ convert_finally_reset
  \/ run_after_callback
  \/ dismiss_dialog

Spec == Init /\ [][Next]_vars

\* The classifier queried on the constructed application.
NextBlocks == \E code_point \in LookupPoints : call_get_unicode_block(code_point)

SpecBlocks == Init /\ [][NextBlocks]_vars

\* The code points looked up while fonts are converted.
CallPoints == {\H0041, \H4E2D, \H110000}

\* The application converting small fonts while get_unicode_block is
\* called on it.
NextCalls ==
  \/ \E f \in SmallFonts(variant) : browse_font_file(f)
  \/ \E out \in OutputPaths : start_conversion_rejected(out)
  \/ \E out \in OutputPaths : start_conversion(out)
  \/ extract_begin
  \/ extract_loop
  \/ extract_return
  \/ convert_no_glyphs
  \/ \E table_format \in TableFormats, writer_ok \in BOOLEAN : save_table(table_format, writer_ok)
  \/ convert_success
  \/ convert_except
  \/ convert_finally
  \/ convert_finally_reset
  \/ run_after_callback
  \/ dismiss_dialog
  \/ \E code_point \in CallPoints : call_get_unicode_block(code_point)

SpecCalls == Init /\ [][NextCalls]_vars

\* The application converting fonts on which unicodedata.category raises.
NextFaults ==
  \/ \E f \in FaultFonts(variant) : browse_font_file(f)
  \/ \E out \in OutputPaths : start_conversion_rejected(out)
  \/ \E out \in OutputPaths : start_conversion(out)
  \/ extract_begin
  \/ extract_loop
  \/ extract_return
  \/ convert_no_glyphs
  \/ \E table_format \in TableFormats, writer_ok \in BOOLEAN : save_table(table_format, writer_ok)
  \/ convert_success
  \/ convert_except
  \/ convert_finally
  \/ convert_finally_reset
  \/ run_after_callback
  \/ dismiss_dialog

SpecFaults == Init /\ [][NextFaults]_vars

\* ------------------------------------------------------------------------
\* Properties of the classifier (under SpecBlocks)

\* The entries of the table in use whose inclusive range contains the
\* code point.
Containing(code_point) ==
  LET table == BlockTable(variant, unicode_blocks)
  IN  { i \in DOMAIN table : table[i][1] <= code_point /\ code_point <= table[i][2] }

\* The fixed string each file returns on a miss.
MissName == IF variant = "en" THEN "Unassigned" ELSE "<5176><4ED6><533A><5757>"

\* C1: get_unicode_block returns the name of the first entry, in the
\* table's iteration order, whose inclusive range contains the code point,
\* and returns the fixed sentinel exactly when no entry contains it.
C1_FirstMatchOrSentinel ==
  lookup # <<>> =>
    LET table == BlockTable(variant, unicode_blocks)
        hits == Containing(lookup[1])
    IN  /\ hits # {} =>
             \E i \in hits : (\A j \in hits : i <= j) /\ lookup[2] = table[i][3]
        /\ (lookup[2] = MissName) <=> (hits = {})

\* C1 witness: a lookup answered by the first of two entries that both
\* contain the code point.
C1_Witness ==
  /\ lookup # <<>>
  /\ Cardinality(Containing(lookup[1])) > 1
  /\ lookup[2] = "Supplementary Private Use Area-A"

\* C9: for every negative integer and every integer above 0x10FFFF
\* get_unicode_block returns the sentinel.
C9_OutOfRangeIsSentinel ==
  (lookup # <<>> /\ (lookup[1] < 0 \/ lookup[1] > 1114111)) => lookup[2] = MissName

\* C9 witness: a negative integer was looked up and the sentinel returned.
C9_Witness == lookup # <<>> /\ lookup[1] < 0 /\ lookup[2] = MissName

\* C10: for every code point in [0, 0x10FFFF] get_unicode_block returns a
\* non-empty string, the name of a table entry or the sentinel.
C10_NonEmptyName ==
  (lookup # <<>> /\ lookup[1] >= 0 /\ lookup[1] <= 1114111) =>
    LET table == BlockTable(variant, unicode_blocks)
    IN  /\ lookup[2] # ""
        /\ lookup[2] \in { table[i][3] : i \in DOMAIN table } \cup {MissName}

\* C10 witness: a code point of the Unicode range that no entry contains
\* was looked up.
C10_Witness ==
  /\ lookup # <<>>
  /\ lookup[1] >= 0 /\ lookup[1] <= 1114111
  /\ Containing(lookup[1]) = {}
  /\ lookup[2] = MissName

\* ------------------------------------------------------------------------
\* Properties of the extraction pass (under Spec)

\* The general categories that start with "C".
ControlCategories == {"Cc", "Cf", "Co", "Cs", "Cn"}

\* chr accepts the code point.
Convertible(code_point) == code_point >= 0 /\ code_point <= 1114111

\* The code points the loop has taken so far.
Taken == { cmap[i][1] : i \in 1..it }

\* The positions of glyphs_data that hold a record of the code point.
RecordsOf(code_point) ==
  { i \in DOMAIN glyphs_data : glyphs_data[i].CodePoint = code_point }

\* The code point is converted and not filtered out under the options of
\* the running pass.
Survives(code_point) ==
  /\ Convertible(code_point)
  /\ include_control_chars \/ category(<<code_point>>) \notin ControlCategories

\* C2: with include_control_chars false no code point of a category
\* starting with "C" has a record; with include_control_chars true every
\* convertible code point of the character map has exactly one record, and
\* the record carries the category of the code point.
C2_ControlFilter ==
  /\ (pc \in {"loop", "extracted"} /\ ~include_control_chars) =>
       /\ \A i \in DOMAIN glyphs_data : glyphs_data[i].Category \notin ControlCategories
       /\ \A c \in Taken :
            (Convertible(c) /\ category(<<c>>) \in ControlCategories) => RecordsOf(c) = {}
  /\ (pc = "extracted" /\ include_control_chars) =>
       \A k \in DOMAIN cmap :
         Convertible(cmap[k][1]) =>
           /\ Cardinality(RecordsOf(cmap[k][1])) = 1
           /\ \A i \in RecordsOf(cmap[k][1]) :
                glyphs_data[i].Category = category(<<cmap[k][1]>>)

\* C2 witness: a pass with include_control_chars true returned a record of
\* category "Cc".
C2_Witness ==
  /\ pc = "extracted"
  /\ include_control_chars
  /\ \E i \in DOMAIN glyphs_data :
       glyphs_data[i].CodePoint = 9 /\ glyphs_data[i].Category = "Cc"

\* C3 as stated: the Character field is the placeholder if and only if
\* show_preview is false and the category starts with "C"; otherwise it is
\* chr(code_point).
C3_PlaceholderIff ==
  \A i \in DOMAIN glyphs_data :
    LET r == glyphs_data[i]
        substituted == ~show_preview /\ r.Category \in ControlCategories
    IN  /\ (r.Character = <<9633>>) <=> substituted
        /\ ~substituted => r.Character = <<r.CodePoint>>

\* C3, amended: the Character field is the placeholder when show_preview is
\* false and the category starts with "C", and chr(code_point) otherwise; so
\* it equals the placeholder in exactly those records and in the record of
\* U+25A1, whose own character is the placeholder.
C3_PlaceholderOrLiteral ==
  \A i \in DOMAIN glyphs_data :
    LET r == glyphs_data[i]
        substituted == ~show_preview /\ r.Category \in ControlCategories
    IN  /\ r.Character = IF substituted THEN <<9633>> ELSE <<r.CodePoint>>
        /\ (r.Character = <<9633>>) <=> (substituted \/ r.CodePoint = 9633)

\* C3 witness: with show_preview false, the record of TAB holds the
\* placeholder.
C3_Witness ==
  /\ ~show_preview
  /\ \E i \in DOMAIN glyphs_data :
       glyphs_data[i].CodePoint = 9 /\ glyphs_data[i].Character = <<9633>>

\* A sequence of integers is strictly increasing.
StrictlyIncreasing(s) == \A i, j \in DOMAIN s : i < j => s[i] < s[j]

\* C4 as stated: the list extract_font_glyphs returns has strictly
\* increasing code points.
C4_ReturnedListSorted ==
  pc = "extracted" =>
    StrictlyIncreasing([i \in DOMAIN glyphs_data |-> glyphs_data[i].CodePoint])

\* The code point of a row handed to the writer: that of the record with
\* the row's Unicode field.
CodePointOfRow(row) ==
  (CHOOSE i \in DOMAIN glyphs_data : glyphs_data[i].Unicode = row.Unicode)

\* C4, amended: the rows save_table hands to the writer are the records of
\* the list in strictly increasing code-point order.
C4_WrittenRowsSorted ==
  pc = "saved" =>
    /\ written # <<>>
    /\ Len(written[1].rows) = Len(glyphs_data)
    /\ \A k \in DOMAIN written[1].rows :
         \E i \in DOMAIN glyphs_data : glyphs_data[i].Unicode = written[1].rows[k].Unicode
    /\ StrictlyIncreasing([k \in DOMAIN written[1].rows |->
                             glyphs_data[CodePointOfRow(written[1].rows[k])].CodePoint])

\* C4 witness: save_table wrote the rows of a list that was not in
\* code-point order.
C4_Witness ==
  /\ pc = "saved"
  /\ Len(glyphs_data) = 2
  /\ glyphs_data[1].CodePoint > glyphs_data[2].CodePoint

\* C5: an entry that fails inside the loop body yields no record and does
\* not abort the pass: the loop takes every entry, no exception leaves it,
\* and the list returned holds one record for each entry that is converted
\* and not filtered out.
C5_FaultIsolation ==
  /\ pc = "loop" => error = ""
  /\ (pc = "except" /\ cmap # <<>>) => error = "Cannot save file"
  /\ pc = "extracted" =>
       /\ it = Len(cmap)
       /\ error = ""
       /\ \A k \in DOMAIN cmap : ~Convertible(cmap[k][1]) => RecordsOf(cmap[k][1]) = {}
       /\ Len(glyphs_data) = Cardinality({ k \in DOMAIN cmap : Survives(cmap[k][1]) })

\* C5 witness: a pass over a map whose first entry is out of range and
\* whose second entry is valid returned exactly one record.
C5_Witness ==
  /\ pc = "extracted"
  /\ Len(cmap) = 2
  /\ ~Convertible(cmap[1][1])
  /\ Survives(cmap[2][1])
  /\ Len(glyphs_data) = 1

\* C6: a code point in the surrogate range 0xD800-0xDFFF never produces a
\* record, whatever include_control_chars and show_preview are.
C6_SurrogateDropped ==
  \A i \in DOMAIN glyphs_data :
    glyphs_data[i].CodePoint < 55296 \/ glyphs_data[i].CodePoint > 57343

\* The exceptions extract_font_glyphs raises.
ExtractErrors ==
  { "ImportError", "Cannot load font file", "Font file does not contain cmap table",
    "Cannot extract character mapping from font file" }

\* C7: extract_font_glyphs raises when the character map is empty, and for
\* a non-empty character map it raises nothing, whatever the entries are:
\* it returns a list.
C7_RaisesOnlyOnEmptyMap ==
  /\ pc \in {"loop", "extracted", "saved"} => Len(font.keys) > 0
  /\ (pc \in {"except", "finally"} /\ font.loads /\ font.has_cmap /\ font.keys = <<>>) =>
       error = "Cannot extract character mapping from font file"
  /\ (font.loads /\ font.has_cmap /\ font.keys # <<>>) =>
       /\ error \notin ExtractErrors
       /\ pc = "except" => error = "Cannot save file"

\* C7 witness: the pass on a font with an empty character map raised.
C7_Witness ==
  /\ pc = "except"
  /\ font.loads /\ font.has_cmap /\ font.keys = <<>>
  /\ error = "Cannot extract character mapping from font file"

\* C8: the list returned holds exactly one record for each code point of
\* the character map that is converted and not filtered out, no record of
\* any other code point, and no two records of one code point.
C8_OneRecordPerSurvivor ==
  pc = "extracted" =>
    /\ \A k \in DOMAIN cmap :
         Cardinality(RecordsOf(cmap[k][1])) = IF Survives(cmap[k][1]) THEN 1 ELSE 0
    /\ \A i \in DOMAIN glyphs_data :
         \E k \in DOMAIN cmap : cmap[k][1] = glyphs_data[i].CodePoint
    /\ \A i, j \in DOMAIN glyphs_data :
         i # j => glyphs_data[i].CodePoint # glyphs_data[j].CodePoint

\* C8 witness: a pass over two convertible code points, one of them
\* filtered out, returned the record of the other.
C8_Witness ==
  /\ pc = "extracted"
  /\ Len(cmap) = 2
  /\ Convertible(cmap[1][1]) /\ Convertible(cmap[2][1])
  /\ ~Survives(cmap[1][1])
  /\ Len(glyphs_data) = 1
  /\ glyphs_data[1].CodePoint = cmap[2][1]

\* ------------------------------------------------------------------------
\* Further properties of the classifier (under SpecBlocks)

\* C11: for every entry (start, end, name) of the table, the lookups of
\* start and of end return name, and the lookups of start - 1 and of
\* end + 1 return something other than name.
C11_BoundaryExactness ==
  lookup # <<>> =>
    LET table == BlockTable(variant, unicode_blocks)
    IN  \A i \in DOMAIN table :
          /\ lookup[1] \in {table[i][1], table[i][2]} => lookup[2] = table[i][3]
          /\ lookup[1] \in {table[i][1] - 1, table[i][2] + 1} => lookup[2] # table[i][3]

\* C11 witness: the lookup of 0x0080, one past the end of "Basic Latin" and
\* the start of "Latin-1 Supplement", returned the latter.
C11_Witness ==
  /\ lookup # <<>>
  /\ variant = "en"
  /\ lookup[1] = 128
  /\ lookup[2] = "Latin-1 Supplement"

\* ------------------------------------------------------------------------
\* Lookups interleaved with conversions (under SpecCalls)

\* C12: a call of get_unicode_block returns the string the previous call
\* at the same code point returned, whatever conversions ran in between.
C12_Deterministic ==
  [][(lookup # <<>> /\ lookup' # <<>> /\ lookup'[1] = lookup[1])
       => lookup'[2] = lookup[2]]_vars

\* C12 witness: get_unicode_block was called a second time at 0x4E2D on the
\* English application while a pass that has looked blocks up is running.
C12_Witness ==
  /\ variant = "en"
  /\ lookup # <<>>
  /\ lookup[1] = 20013
  /\ lookup[3] >= 2
  /\ lookup[2] = "CJK Unified Ideographs"
  /\ pc = "loop"
  /\ glyphs_data # <<>>

\* C20: no step of the application changes self.unicode_blocks.
C20_TableNeverModified == [][unicode_blocks' = unicode_blocks]_vars

\* C20 witness: get_unicode_block was called, and a conversion extracted
\* records and handed them to a writer, on the English application.
C20_Witness ==
  /\ variant = "en"
  /\ unicode_blocks = load_unicode_blocks
  /\ lookup # <<>>
  /\ pc = "saved"
  /\ written # <<>>
  /\ written[1].rows # <<>>

\* ------------------------------------------------------------------------
\* Failures inside the loop body (under SpecFaults and Spec)

\* C13: when unicodedata.category raises for a character, the code point
\* goes on to the filter with category "Cn": with include_control_chars
\* false it has no record, with include_control_chars true it has exactly
\* one record, of category "Cn".
C13_CategoryFallback ==
  (pc = "extracted" /\ font.category_raises) =>
    \A k \in DOMAIN cmap :
      Convertible(cmap[k][1]) =>
        IF include_control_chars
        THEN /\ Cardinality(RecordsOf(cmap[k][1])) = 1
             /\ \A i \in RecordsOf(cmap[k][1]) : glyphs_data[i].Category = "Cn"
        ELSE RecordsOf(cmap[k][1]) = {}

\* The string get_unicode_name gives a character without a name.
UnnamedSentinel ==
  IF variant = "en" THEN "Unnamed Character" ELSE "<672A><547D><540D><5B57><7B26>"

\* C14: a code point without a name in the Unicode database that is
\* converted and not filtered out has exactly one record in the returned
\* list, and its UnicodeName is the fixed string.
C14_UnnamedSentinel ==
  pc = "extracted" =>
    \A k \in DOMAIN cmap :
      (Survives(cmap[k][1]) /\ name_raises(<<cmap[k][1]>>)) =>
        /\ Cardinality(RecordsOf(cmap[k][1])) = 1
        /\ \A i \in RecordsOf(cmap[k][1]) : glyphs_data[i].UnicodeName = UnnamedSentinel

\* C14 witness: the English pass returned a record for TAB, which has no
\* name, with UnicodeName "Unnamed Character".
C14_Witness ==
  /\ pc = "extracted"
  /\ variant = "en"
  /\ \E i \in DOMAIN glyphs_data :
       glyphs_data[i].CodePoint = 9 /\ glyphs_data[i].UnicodeName = "Unnamed Character"

\* C15: when font.getGlyphName fails, every code point that is converted
\* and not filtered out still has exactly one record, and its GlyphName is
\* "glyph_" followed by the glyph identifier of its entry.
C15_GlyphNameFallback ==
  (pc = "extracted" /\ variant = "en" /\ ~font.names) =>
    \A k \in DOMAIN cmap :
      Survives(cmap[k][1]) =>
        /\ Cardinality(RecordsOf(cmap[k][1])) = 1
        /\ \A i \in RecordsOf(cmap[k][1]) :
             glyphs_data[i].GlyphName = "glyph_" \o GlyphIdStr(cmap[k][2])

\* C15 witness: with a font whose glyph names cannot be resolved, the pass
\* returned the record of "A" (glyph 2) with GlyphName "glyph_2".
C15_Witness ==
  /\ pc = "extracted"
  /\ variant = "en"
  /\ ~font.names
  /\ \E i \in DOMAIN glyphs_data :
       glyphs_data[i].CodePoint = 65 /\ glyphs_data[i].GlyphName = "glyph_2"

\* "U+" and the uppercase hexadecimal digits of the code points of the
\* model, at least four of them.
ExpectedUnicode(code_point) ==
  CASE code_point = 9 -> "U+0009"
    [] code_point = 65 -> "U+0041"
    [] code_point = 9633 -> "U+25A1"
    [] code_point = 20013 -> "U+4E2D"
    [] code_point = 55296 -> "U+D800"
    [] code_point = 983040 -> "U+F0000"
    [] code_point = 1114111 -> "U+10FFFF"
    [] OTHER -> "?"

\* C16: the Unicode field of every record is "U+" followed by the code
\* point in uppercase hexadecimal, padded with zeros to four digits and
\* with five or six digits above 0xFFFF.
C16_UnicodeField ==
  \A i \in DOMAIN glyphs_data :
    glyphs_data[i].Unicode = ExpectedUnicode(glyphs_data[i].CodePoint)

\* C16 witness: the returned list holds U+F0000 (five digits) and U+0009
\* (padded).
C16_Witness ==
  /\ pc = "extracted"
  /\ \E i \in DOMAIN glyphs_data :
       glyphs_data[i].CodePoint = 983040 /\ glyphs_data[i].Unicode = "U+F0000"
  /\ \E i \in DOMAIN glyphs_data :
       glyphs_data[i].CodePoint = 9 /\ glyphs_data[i].Unicode = "U+0009"

\* The position of a record of the list among the rows in code-point order.
RankOf(i) ==
  Cardinality({ j \in DOMAIN glyphs_data :
                  glyphs_data[j].CodePoint <= glyphs_data[i].CodePoint })

\* C17: the rows handed to the writer are the records of the list in
\* ascending code-point order, each without the CodePoint and Category
\* fields and with every other field unchanged, for each format.
C17_RowsWithoutTemporaryFields ==
  pc = "saved" =>
    /\ written # <<>>
    /\ written[1].format \in {"csv", "xlsx", "json", "html", "md"}
    /\ Len(written[1].rows) = Len(glyphs_data)
    /\ \A i \in DOMAIN glyphs_data :
         LET row == written[1].rows[RankOf(i)]
         IN  /\ DOMAIN row = (DOMAIN glyphs_data[i]) \ {"CodePoint", "Category"}
             /\ "CodePoint" \notin DOMAIN row
             /\ "Category" \notin DOMAIN row
             /\ \A f \in DOMAIN row : row[f] = glyphs_data[i][f]

\* C17 witness: two records that were not in code-point order were written
\* as JSON rows of the other fields.
C17_Witness ==
  /\ pc = "saved"
  /\ written # <<>>
  /\ written[1].format = "json"
  /\ Len(glyphs_data) = 2
  /\ glyphs_data[1].CodePoint > glyphs_data[2].CodePoint
  /\ Len(written[1].rows) = 2
  /\ written[1].rows[1].Unicode = glyphs_data[2].Unicode
  /\ "Category" \notin DOMAIN written[1].rows[1]

\* ------------------------------------------------------------------------
\* The scenario of a font that maps "A" and U+4E2D (under Spec)

\* The English application runs a pass with the default options on a
\* character map whose keys are 0x0041 and 0x4E2D.
ScenarioAZhong ==
  /\ variant = "en"
  /\ Len(cmap) = 2
  /\ {cmap[1][1], cmap[2][1]} = {65, 20013}
  /\ ~include_control_chars
  /\ show_preview

\* C18 as stated: the list extract_font_glyphs returns holds exactly the
\* record of 0x0041 with block "Basic Latin" first and the record of 0x4E2D
\* with block "CJK Unified Ideographs" second.
C18_ReturnedInCodePointOrder ==
  (pc = "extracted" /\ ScenarioAZhong) =>
    /\ Len(glyphs_data) = 2
    /\ glyphs_data[1].CodePoint = 65
    /\ glyphs_data[1].Block = "Basic Latin"
    /\ glyphs_data[2].CodePoint = 20013
    /\ glyphs_data[2].Block = "CJK Unified Ideographs"

\* C18, amended: the list returned holds exactly two records, the one of
\* 0x0041 with name "LATIN CAPITAL LETTER A" and block "Basic Latin" and
\* the one of 0x4E2D with block "CJK Unified Ideographs", in the order the
\* character map yields them; the rows handed to the writer have 0x0041
\* first and 0x4E2D second.
C18_TwoRecordsWrittenInOrder ==
  /\ (pc \in {"extracted", "saved"} /\ ScenarioAZhong) =>
       /\ Len(glyphs_data) = 2
       /\ \A i \in DOMAIN glyphs_data : glyphs_data[i].CodePoint = cmap[i][1]
       /\ \A i \in DOMAIN glyphs_data :
            /\ glyphs_data[i].CodePoint = 65 =>
                 /\ glyphs_data[i].Block = "Basic Latin"
                 /\ glyphs_data[i].UnicodeName = "LATIN CAPITAL LETTER A"
                 /\ glyphs_data[i].Character = <<65>>
            /\ glyphs_data[i].CodePoint = 20013 =>
                 /\ glyphs_data[i].Block = "CJK Unified Ideographs"
                 /\ glyphs_data[i].Character = <<20013>>
  /\ (pc = "saved" /\ ScenarioAZhong) =>
       /\ written # <<>>
       /\ Len(written[1].rows) = 2
       /\ written[1].rows[1].Unicode = "U+0041"
       /\ written[1].rows[1].Block = "Basic Latin"
       /\ written[1].rows[2].Unicode = "U+4E2D"
       /\ written[1].rows[2].Block = "CJK Unified Ideographs"

\* C18 witness: the character map yielded 0x4E2D before 0x0041 and the two
\* rows were written.
C18_Witness ==
  /\ pc = "saved"
  /\ ScenarioAZhong
  /\ cmap[1][1] = 20013
  /\ Len(glyphs_data) = 2
  /\ written # <<>>
  /\ Len(written[1].rows) = 2

\* ------------------------------------------------------------------------
\* The pass and the state of the window (under Spec)

\* C19: a step of extract_font_glyphs on the worker thread changes none of
\* the state the thread of the window also reads or writes (the Tk
\* variables, the button, the callback queue, the dialogs, the font path).
C19_PassWritesNoSharedState ==
  [][(pc \in {"begin", "loop"} /\ thread_vars' # thread_vars)
       => UNCHANGED <<status_var, progress_var, convert_button, after_queue,
                      dialogs, font_path>>]_vars

\* ------------------------------------------------------------------------
\* The application under a scheduler that lets a started thread run and an
\* event loop that keeps running the callbacks scheduled with root.after.

\* A step of the convert_thread that is inside its try block or handlers.
convert_thread_step ==
  \/ extract_begin
  \/ extract_loop
  \/ extract_return
  \/ convert_no_glyphs
  \/ \E table_format \in TableFormats, writer_ok \in BOOLEAN : save_table(table_format, writer_ok)
  \/ convert_success
  \/ convert_except
  \/ convert_finally

NextSmall ==
  \/ \E f \in SmallFonts(variant) : browse_font_file(f)
  \/ \E out \in OutputPaths : start_conversion_rejected(out)
  \/ \E out \in OutputPaths : start_conversion(out)
  \/ convert_thread_step
  \/ convert_finally_reset
  \/ run_after_callback
  \/ dismiss_dialog

FairSpec ==
  /\ Init
  /\ [][NextSmall]_vars
  /\ WF_vars(convert_thread_step)
  /\ WF_vars(convert_finally_reset)
  /\ WF_vars(run_after_callback)

\* ------------------------------------------------------------------------
\* The conversion thread and the window (under Spec and FairSpec)

\* The number of convert_threads that have started and not executed their
\* last statement.
ThreadsAlive == (IF pc = "idle" THEN 0 ELSE 1) + finishing

\* C21: at most one conversion thread is alive at any time.
C21_AtMostOneThread == ThreadsAlive <= 1

\* C22: a conversion that was started reaches a state with the convert
\* button enabled again, from the start of the thread and from each of its
\* three outcomes: table saved, no characters extracted, exception raised.
C22_EventuallyReenabled ==
  (pc \in {"begin", "saved", "except"} \/ (pc = "extracted" /\ glyphs_data = <<>>))
    ~> (convert_button = "normal")

\* C22 witness: the success message of a conversion is on screen, every
\* callback has run and the button is enabled again.
C22_Witness ==
  /\ convert_button = "normal"
  /\ ThreadsAlive = 0
  /\ after_queue = <<>>
  /\ dialogs # <<>>
  /\ dialogs[1][1] = "showinfo"

\* C23: when extract_font_glyphs raises because the font cannot be loaded,
\* has no cmap table or has an empty character map, convert_thread does not
\* reach save_table and schedules exactly one message box, an error.
C23_OneErrorDialog ==
  (pc \in {"except", "finally"}
     /\ (~font.loads \/ ~font.has_cmap \/ font.keys = <<>>)) =>
    /\ error \in ExtractErrors
    /\ glyphs_data = <<>>
    /\ written = <<>>
    /\ pc = "except" => scheduled = <<>>
    /\ pc = "finally" => scheduled = <<"showerror">>

\* C23 witness: the handler has scheduled the error of a font without a
\* cmap table, and the callback is waiting in the queue of the event loop.
C23_Witness ==
  /\ pc = "finally"
  /\ font.loads /\ ~font.has_cmap
  /\ scheduled = <<"showerror">>
  /\ after_queue # <<>>
  /\ after_queue[Len(after_queue)] =
       <<"showerror", "Font file does not contain cmap table">>

\* The messages of the checks of start_conversion.
StartErrors ==
  { "fontTools library not installed", "pandas library not installed",
    "Please select a valid font file", "Please select output file path",
    "Cannot create output directory" }

\* C25: a step of start_conversion that shows the error of a failed check
\* leaves the convert button, the status, the progress and the threads as
\* they were.
C25_RejectedStartChangesNothing ==
  [][(\E m \in StartErrors : dialogs' = Append(dialogs, <<"showerror", m>>))
       => /\ convert_button' = convert_button
          /\ status_var' = status_var
          /\ progress_var' = progress_var
          /\ thread_vars' = thread_vars
          /\ finishing' = finishing]_vars

\* C25 witness: start_conversion could not create the output directory:
\* its error is on screen, the button is enabled and no thread runs.
C25_Witness ==
  /\ dialogs = << <<"showerror", "Cannot create output directory">> >>
  /\ convert_button = "normal"
  /\ status_var = <<"Ready">>
  /\ progress_var = <<0, 1>>
  /\ ThreadsAlive = 0

\* C26: when the character map is not empty and none of its entries is
\* converted and kept, the pass returns an empty list without raising and
\* convert_thread schedules the warning alone, without calling save_table.
C26_AllFilteredWarns ==
  (cmap # <<>> /\ it = Len(cmap) /\ \A k \in DOMAIN cmap : ~Survives(cmap[k][1])) =>
    /\ pc \in {"loop", "extracted", "finally"}
    /\ error = ""
    /\ glyphs_data = <<>>
    /\ written = <<>>
    /\ pc = "finally" => scheduled = <<"showwarning">>

\* C26 witness: a map of TAB, which is filtered out, and 0x110000, which
\* chr rejects, ended with the warning scheduled and nothing written.
C26_Witness ==
  /\ pc = "finally"
  /\ ~include_control_chars
  /\ {cmap[k][1] : k \in DOMAIN cmap} = {9, 1114112}
  /\ scheduled = <<"showwarning">>
  /\ written = <<>>
  /\ after_queue # <<>>
  /\ after_queue[Len(after_queue)][1] = "showwarning"

\* ------------------------------------------------------------------------
\* The shape of the block table (under SpecBlocks)

\* C24: the table in use is sorted ascending by start, every entry has
\* start <= end, and the entries that contain the code point looked up
\* (every end of a range is looked up) are identical triples.
C24_TableWellFormed ==
  LET table == BlockTable(variant, unicode_blocks)
  IN  /\ \A i \in 1..(Len(table) - 1) : table[i][1] <= table[i + 1][1]
      /\ \A i \in DOMAIN table : table[i][1] <= table[i][2]
      /\ lookup # <<>> =>
           \A i, j \in Containing(lookup[1]) : table[i] = table[j]

\* C24 witness: 0xF0000 was looked up in the English table, where two
\* entries contain it, and the name the two share was returned.
C24_Witness ==
  /\ variant = "en"
  /\ lookup # <<>>
  /\ lookup[1] = 983040
  /\ Cardinality(Containing(983040)) = 2
  /\ lookup[2] = "Supplementary Private Use Area-A"

\* ------------------------------------------------------------------------
\* The options of the pass and its counters (under Spec)

\* The records of the first k entries of the character map of the running
\* pass under a given setting of show_preview.
RECURSIVE PassWith(_, _)
PassWith(k, preview) ==
  IF k = 0 THEN <<>>
  ELSE PassWith(k - 1, preview)
       \o LoopBody(variant, font, cmap[k][1], cmap[k][2],
                   include_control_chars, preview, unicode_blocks)

\* C27: with include_control_chars false the list of the pass is the list
\* the other setting of show_preview gives, and the Character field of every
\* record is the character of its code point, never a substitute.
C27_PreviewIrrelevantWhenFiltering ==
  (pc \in {"loop", "extracted"} /\ ~include_control_chars) =>
    /\ glyphs_data = PassWith(it, ~show_preview)
    /\ \A i \in DOMAIN glyphs_data :
         glyphs_data[i].Character = <<glyphs_data[i].CodePoint>>

\* C27 witness: with both options off the pass dropped TAB and returned the
\* record of "A" with its character.
C27_Witness ==
  /\ pc = "extracted"
  /\ ~include_control_chars
  /\ ~show_preview
  /\ {cmap[k][1] : k \in DOMAIN cmap} = {9, 65}
  /\ Len(glyphs_data) = 1
  /\ glyphs_data[1].Character = <<65>>

\* C28: in the loop processed counts the entries taken, whether they gave
\* a record or not: total_glyphs is the size of the character map and is
\* not 0, processed is between 1 and total_glyphs after every iteration,
\* and equals total_glyphs when the loop has ended.
C28_ProcessedCounter ==
  /\ pc = "loop" =>
       /\ total_glyphs = Len(cmap)
       /\ total_glyphs > 0
       /\ processed = it
       /\ processed <= total_glyphs
       /\ it > 0 => processed >= 1
  /\ pc = "extracted" =>
       /\ processed = total_glyphs
       /\ processed = Len(cmap)

\* C28 witness: the loop ended on a map of two entries, one that chr
\* rejects and one that is filtered out, with processed = 2 and no record.
C28_Witness ==
  /\ pc = "extracted"
  /\ ~include_control_chars
  /\ {cmap[k][1] : k \in DOMAIN cmap} = {1114112, 983040}
  /\ glyphs_data = <<>>
  /\ processed = 2
  /\ total_glyphs = 2

\* C29: when no convert_thread is alive the progress value is 0.
C29_ProgressZeroAfterThread == ThreadsAlive = 0 => progress_var = <<0, 1>>

\* C29 witness: a conversion that saved its table has ended, its success
\* message is scheduled or on screen, and the progress is back to 0.
C29_Witness ==
  /\ ThreadsAlive = 0
  /\ progress_var = <<0, 1>>
  /\ \/ \E i \in DOMAIN after_queue : after_queue[i][1] = "showinfo"
     \/ \E i \in DOMAIN dialogs : dialogs[i][1] = "showinfo"

\* C30: outside the body of extract_font_glyphs no font it opened is still
\* open.
C30_FontClosedOnLeave == pc \notin {"begin", "loop"} => ~font_open

====
